---- MODULE Spec2Model ----
(***************************************************************************)
(* State-machine model of the RAG pipeline of src/RAG: the chunker         *)
(* (document_processor.py), the Chroma vector-store wrapper                *)
(* (vector_database.py), the retrieval orchestrator and response generator *)
(* (rag_system.py), the web search client (web_search.py) and the          *)
(* Streamlit start-up gate (main.py, config.py).                           *)
(*                                                                         *)
(* Text is a sequence of characters.  Remote services (embedding API,      *)
(* chat API, Serper, the Chroma store) are the environment: each call      *)
(* nondeterministically succeeds or raises.                                *)
(***************************************************************************)
EXTENDS Integers, Sequences, FiniteSets, TLC

(***************************************************************************)
(* Bounds of the model                                                     *)
(***************************************************************************)
MaxTextLen == 4
MaxSize == 3
MaxOverlap == 3
MaxIter == 6

Chars == {"a", "b", "c", " "}
Whitespace == {" "}

Min(a, b) == IF a < b THEN a ELSE b
Max(a, b) == IF a > b THEN a ELSE b

RECURSIVE SeqsUpTo(_, _)
SeqsUpTo(S, n) ==
  IF n = 0 THEN {<<>>}
  ELSE LET shorter == SeqsUpTo(S, n - 1)
       IN shorter \cup {Append(s, x) : s \in {t \in shorter : Len(t) = n - 1}, x \in S}

(***************************************************************************)
(* Python string primitives                                                *)
(***************************************************************************)
\* s[i:j] with Python's clamping of out-of-range and negative indices
PyIndex(k, n) == IF k < 0 THEN Max(k + n, 0) ELSE Min(k, n)

PySlice(s, i, j) ==
  LET lo == PyIndex(i, Len(s))
      hi == PyIndex(j, Len(s))
  IN IF lo >= hi THEN <<>> ELSE SubSeq(s, lo + 1, hi)

RECURSIVE LStrip(_)
LStrip(s) ==
  IF s = <<>> THEN <<>>
  ELSE IF Head(s) \in Whitespace THEN LStrip(Tail(s)) ELSE s

RECURSIVE RStrip(_)
RStrip(s) ==
  IF s = <<>> THEN <<>>
  ELSE IF s[Len(s)] \in Whitespace THEN RStrip(SubSeq(s, 1, Len(s) - 1)) ELSE s

\* str.strip()
Strip(s) == RStrip(LStrip(s))

\* `not text.strip()`
IsBlank(s) == Strip(s) = <<>>

(***************************************************************************)
(* Vector store: inputs and environment                                    *)
(***************************************************************************)
MaxOps == 2
MaxChunkList == 2

Callers == {"s1", "s2"}
None == "None"

\* uuid.uuid4().hex[:8]: one of finitely many values, drawn at random
Suffixes == {"0a1b2c3d", "ffffffff"}

DocTexts == {<<"a">>, <<" ">>}
ChunkInputs == SeqsUpTo(DocTexts, MaxChunkList)
Sources == {<<"PDF", "n1">>}

\* the vector the embedding model answers for a non-blank text
Embedding(text) ==
  LET s == Strip(text)
  IN IF s[1] = "a" THEN <<1, 0>> ELSE IF s[1] = "b" THEN <<0, 1>> ELSE <<0 - 1, 0>>


(***************************************************************************)
(* State                                                                   *)
(***************************************************************************)
VARIABLES
  ck_text, ck_size, ck_overlap,   \* chunk_text arguments
  ck_start, ck_chunks,            \* chunk_text locals
  ck_iters,                       \* loop iterations executed so far
  ck_pc                           \* "entry" | "loop" | "done"

ckVars == <<ck_text, ck_size, ck_overlap, ck_start, ck_chunks, ck_iters, ck_pc>>

VARIABLES
  collection,     \* the persistent Chroma collection: a set of stored records
  oa_client,      \* [caller -> BOOLEAN]  self.openai_client is set
  coll_h,         \* [caller -> BOOLEAN]  self.collection is set
  pc,             \* [caller -> "idle" | "add" | "del"]
  ncalls,         \* [caller -> number of method calls started]
  a_chunks, a_src, a_i, a_processed,   \* add_documents arguments and locals
  a_log,          \* [caller -> events of the running / last add_documents call]
  del_ids,        \* [caller -> all_docs["ids"] read by delete_all_documents]
  ret             \* [caller -> what the last finished method call returned]

vdbVars == <<collection, oa_client, coll_h, pc, ncalls, a_chunks, a_src, a_i,
             a_processed, a_log, del_ids, ret>>

VARIABLES
  gen_client,     \* RAGSystem.client is set
  ws,             \* RAGSystem.web_searcher: "none" | "disabled" | "enabled"
  g_pc,           \* generate_response: "idle" | "vector" | "web" | "chat"
  g_query, g_include,   \* its arguments
  g_vec, g_web,   \* vector_results and web_results of retrieve_context
  g_retr,         \* what retrieve_context returned
  g_events,       \* the remote calls of the running / last generate_response
  g_result        \* what the last generate_response returned

ragVars == <<gen_client, ws, g_pc, g_query, g_include, g_vec, g_web, g_retr, g_events,
             g_result>>

VARIABLES
  openai_key, serper_key,   \* OPENAI_API_KEY / SERPER_API_KEY are set (config.py)
  rag_system,               \* st.session_state.rag_system is not None
  system_initialized,       \* st.session_state.system_initialized
  chat_history,             \* st.session_state.chat_history
  run_pc                    \* the script run: "idle" (no run) | "tabs" (past the gate)

mainVars == <<openai_key, serper_key, rag_system, system_initialized, chat_history, run_pc>>

VARIABLES
  ev_metric,      \* the RAGEvaluator metric last computed, "none" before any
  ev_question, ev_answer,   \* the question and the generated answer
  ev_context,     \* the retrieved context
  ev_chunks,      \* retrieved_chunks
  ev_score        \* the scores returned so far, in the order of the calls

evalVars == <<ev_metric, ev_question, ev_answer, ev_context, ev_chunks, ev_score>>

VARIABLES
  sg_pc,          \* the story graph run: "idle" | "running" | "end" | "failed"
  sg_step,        \* the number of the current superstep
  sg_state,       \* StoryState: [key -> content, None while the key is unset]
  sg_todo,        \* nodes of the current superstep that have not run yet
  sg_done,        \* nodes of the current superstep that have run
  sg_writes,      \* the updates they returned, applied when the superstep ends
  sg_trace        \* every node execution so far: superstep, node, keys it saw

storyVars == <<sg_pc, sg_step, sg_state, sg_todo, sg_done, sg_writes, sg_trace>>

VARIABLES
  rf_node,        \* the reflexion graph: "idle", the next node "generate" |
                  \* "reflect", "end", or "failed" after a model call raised
  rf_messages,    \* ReflexionState["messages"]
  rf_critique,    \* ReflexionState["critique"]
  rf_iterations,  \* ReflexionState["iterations"]
  rf_steps        \* supersteps executed so far

reflexVars == <<rf_node, rf_messages, rf_critique, rf_iterations, rf_steps>>

labVars == <<evalVars, storyVars, reflexVars>>

vars == <<ckVars, vdbVars, ragVars, mainVars, labVars>>

(***************************************************************************)
(* DocumentProcessor.chunk_text                                            *)
(***************************************************************************)
\* a slice that stops one character early
WindowRawOffByOne(text, start, size) == PySlice(text, start, (start + size) - 1)

\* the value the loop body appends for a window, when it appends one
WindowRaw(text, start, size) == PySlice(text, start, start + size)

ChunkOfWindowUnstripped(text, start, size) == WindowRaw(text, start, size)

ChunkOfWindow(text, start, size) == Strip(WindowRaw(text, start, size))

CHUNK_SIZE == 512
CHUNK_OVERLAP == 150

\* a window advance that steps back one character too many
NextStartOffByOne(start, size, overlap) == ((start + size) - overlap) - 1

\* a window advance that forgets the overlap
NextStartNoOverlap(start, size, overlap) == start + size

\* `end = start + chunk_size` ... `start = end - overlap` (lines 29, 36)
NextStart(start, size, overlap) == (start + size) - overlap

\* the loop of chunk_text from window start `start` on, as a function
RECURSIVE ChunkLoop(_, _, _, _, _)
ChunkLoop(text, size, overlap, start, fuel) ==
  IF start >= Len(text) \/ fuel = 0 THEN <<>>
  ELSE LET here == IF IsBlank(WindowRaw(text, start, size))
                     THEN <<>> ELSE <<ChunkOfWindow(text, start, size)>>
           start2 == NextStart(start, size, overlap)
       IN IF start2 >= Len(text) THEN here
          ELSE here \o ChunkLoop(text, size, overlap, start2, fuel - 1)

\* chunk_text(text, size, overlap) for overlap < size
ChunkText(text, size, overlap) ==
  IF text = <<>> \/ IsBlank(text) THEN <<>>
  ELSE ChunkLoop(text, size, overlap, 0, Len(text) + 1)

\* `if not text or not text.strip(): return []`
ChunkEntry ==
  /\ ck_pc = "entry"
  /\ ck_pc' = IF ck_text = <<>> \/ IsBlank(ck_text) THEN "done" ELSE "loop"
  /\ UNCHANGED <<ck_text, ck_size, ck_overlap, ck_start, ck_chunks, ck_iters>>
  /\ UNCHANGED <<vdbVars, ragVars, mainVars, labVars>>

\* one iteration of `while start < len(text)`, with its trailing break test
ChunkIter ==
  /\ ck_pc = "loop"
  /\ ck_start < Len(ck_text)
  /\ ck_iters < MaxIter
  /\ LET chunk == WindowRaw(ck_text, ck_start, ck_size)
         start2 == NextStart(ck_start, ck_size, ck_overlap)
     IN /\ ck_chunks' = IF ~IsBlank(chunk)
                          THEN Append(ck_chunks, ChunkOfWindow(ck_text, ck_start, ck_size))
                          ELSE ck_chunks
        /\ ck_start' = start2
        /\ ck_pc' = IF start2 >= Len(ck_text) THEN "done" ELSE "loop"
  /\ ck_iters' = ck_iters + 1
  /\ UNCHANGED <<ck_text, ck_size, ck_overlap>>
  /\ UNCHANGED <<vdbVars, ragVars, mainVars, labVars>>

InitChunkVars ==
  /\ ck_text \in SeqsUpTo(Chars, MaxTextLen)
  /\ ck_size \in 1..MaxSize
  /\ ck_overlap \in 0..MaxOverlap
  /\ ck_start = 0
  /\ ck_chunks = <<>>
  /\ ck_iters = 0
  /\ ck_pc = "entry"

(***************************************************************************)
(* ChromaVectorDB (vector_database.py)                                     *)
(***************************************************************************)
\* try: <body> except Exception: return <default>
TryExcept(body, default) ==
  [value |-> IF body.raised THEN default ELSE body.value, exc |-> FALSE]

\* the same body without the handler: the exception reaches the caller
NoExcept(body, default) ==
  [value |-> IF body.raised THEN None ELSE body.value, exc |-> body.raised]

Raised == [raised |-> TRUE, value |-> None]
Returns(v) == [raised |-> FALSE, value |-> v]

Returned(c, op, r, failed) ==
  ret' = [ret EXCEPT ![c] = [op |-> op, value |-> r.value, exc |-> r.exc,
                             failed |-> failed,
                             call |-> IF pc[c] = "idle" THEN ncalls[c] + 1 ELSE ncalls[c]]]

RECURSIVE SumOver(_, _)
SumOver(f, S) ==
  IF S = {} THEN 0 ELSE LET x == CHOOSE y \in S : TRUE IN f[x] + SumOver(f, S \ {x})

\* a new method call; the model stops starting calls after MaxOps of them
BeginCall(c) ==
  /\ pc[c] = "idle"
  /\ SumOver(ncalls, Callers) < MaxOps
  /\ ncalls' = [ncalls EXCEPT ![c] = @ + 1]

\* ---- initialize (lines 21-45) ----
\* step: how far the body gets before an SDK call raises
\*   "ctor"   openai.OpenAI(...) raises          "models" models.list() raises
\*   "chroma" PersistentClient(...) raises       "get"    create and get both raise
\*   "ok"     the collection is created, or exists and is fetched
InitializeResult(step) ==
  TryExcept(IF step = "ok" THEN Returns(TRUE) ELSE Raised, FALSE)

\* the assignments of initialize up to the point `step`
VdbInitialize(c, step) ==
  /\ oa_client' = [oa_client EXCEPT ![c] = IF step = "ctor" THEN @ ELSE TRUE]
  /\ coll_h' = [coll_h EXCEPT ![c] = IF step = "ok" THEN TRUE ELSE @]

InitSteps == {"ctor", "models", "chroma", "get", "ok"}

\* called for as long as it has not succeeded (initialize_system, main.py)
Initialize(c) ==
  /\ pc[c] = "idle"
  /\ ~coll_h[c]
  /\ \E step \in InitSteps :
       /\ VdbInitialize(c, step)
       /\ Returned(c, "initialize", InitializeResult(step), step # "ok")
  /\ UNCHANGED <<collection, pc, ncalls, a_chunks, a_src, a_i, a_processed, a_log,
                 del_ids>>

\* ---- generate_embedding (lines 47-63) ----
\* apiOk: the embeddings request answers; a missing client raises inside the try
EmbeddingRequested(text, hasClient) == ~IsBlank(text) /\ hasClient

\* a client that asks a second time when the first request fails
EmbeddingRequestsRetried(text, hasClient, apiOk) ==
  IF ~EmbeddingRequested(text, hasClient) THEN 0 ELSE IF apiOk THEN 1 ELSE 2

\* the number of embeddings.create requests one generate_embedding call issues
EmbeddingRequests(text, hasClient, apiOk) ==
  IF EmbeddingRequested(text, hasClient) THEN 1 ELSE 0

GenerateEmbedding(text, hasClient, apiOk) ==
  IF IsBlank(text) THEN TryExcept(Returns(None), None)
  ELSE TryExcept(IF hasClient /\ apiOk THEN Returns(Embedding(text)) ELSE Raised, None)

GenerateEmbeddingCall(c) ==
  /\ BeginCall(c)
  /\ \E text \in DocTexts, apiOk \in BOOLEAN :
       Returned(c, "generate_embedding", GenerateEmbedding(text, oa_client[c], apiOk),
                ~IsBlank(text) /\ ~(oa_client[c] /\ apiOk))
  /\ UNCHANGED <<collection, oa_client, coll_h, pc, a_chunks, a_src, a_i, a_processed,
                 a_log, del_ids>>

\* ---- add_documents (lines 65-131) ----
\* f"{source_type}_{source_name}_{i}_{uuid.uuid4().hex[:8]}"
DocId(source_type, source_name, i, suffix) == <<source_type, source_name, i, suffix>>

StoredRecord(chunk, embedding, src, i, suffix, by) ==
  [id |-> DocId(src[1], src[2], i, suffix), document |-> chunk, embedding |-> embedding,
   source_type |-> src[1], source_name |-> src[2], chunk_index |-> i, by |-> by]

HasId(coll, id) == \E r \in coll : r.id = id

\* a write that does not look at the ids already stored
CollectionAddUnkeyed(coll, rec) == coll \cup {rec}

\* collection.add(ids=[doc_id], ...): the store keeps one record per id and
\* leaves the stored record in place when the id is already there
CollectionAdd(coll, rec) == IF HasId(coll, rec.id) THEN coll ELSE coll \cup {rec}

\* the locals of a call that has returned
AddLocalsGone(c) ==
  /\ a_chunks' = [a_chunks EXCEPT ![c] = <<>>]
  /\ a_src' = [a_src EXCEPT ![c] = None]
  /\ a_i' = [a_i EXCEPT ![c] = 0]
  /\ a_processed' = [a_processed EXCEPT ![c] = 0]
  /\ a_log' = [a_log EXCEPT ![c] = <<>>]

\* `if not text_chunks or not self.collection: return False`, else enter the loop
AddEnter(c, chunks, src) ==
  IF chunks = <<>> \/ ~coll_h[c]
    THEN /\ Returned(c, "add", TryExcept(Returns(FALSE), FALSE), FALSE)
         /\ UNCHANGED <<pc, a_chunks, a_src, a_i, a_processed, a_log>>
    ELSE /\ a_chunks' = [a_chunks EXCEPT ![c] = chunks]
         /\ a_src' = [a_src EXCEPT ![c] = src]
         /\ a_i' = [a_i EXCEPT ![c] = 0]
         /\ a_processed' = [a_processed EXCEPT ![c] = 0]
         /\ a_log' = [a_log EXCEPT ![c] = <<>>]
         /\ pc' = [pc EXCEPT ![c] = "add"]
         /\ ret' = ret

AddStart(c) ==
  /\ BeginCall(c)
  /\ \E chunks \in ChunkInputs, src \in Sources : AddEnter(c, chunks, src)
  /\ UNCHANGED <<collection, oa_client, coll_h, del_ids>>

Ev(kind, i, ok, id) == [kind |-> kind, i |-> i, ok |-> ok, id |-> id]

\* the embedding requests generate_embedding(chunk) issued for chunk i
EmbedLog(c, i, apiOk) ==
  [k \in 1..EmbeddingRequests(a_chunks[c][i + 1], oa_client[c], apiOk) |->
     Ev("embed", i, apiOk, None)]

\* the loop body is left for the next chunk (`continue`, or its end is reached)
NextChunkOfLoop(c, processed, log) ==
  /\ a_log' = [a_log EXCEPT ![c] = log]
  /\ a_processed' = [a_processed EXCEPT ![c] = processed]
  /\ a_i' = [a_i EXCEPT ![c] = @ + 1]
  /\ UNCHANGED <<pc, ret, a_chunks, a_src>>

\* `except Exception as e: ... return False` (lines 129-131)
AddAborted(c) ==
  /\ pc' = [pc EXCEPT ![c] = "idle"]
  /\ Returned(c, "add", TryExcept(Raised, FALSE), TRUE)
  /\ AddLocalsGone(c)

\* a handler that gives the whole call up when one embedding fails
AbortOnEmbeddingFailure(c) ==
  /\ pc' = [pc EXCEPT ![c] = "idle"]
  /\ Returned(c, "add", TryExcept(Returns(FALSE), FALSE), FALSE)
  /\ AddLocalsGone(c)
  /\ collection' = collection

\* `if embedding is None: continue` (lines 88-89)
AfterEmbeddingFailure(c) ==
  /\ NextChunkOfLoop(c, a_processed[c], a_log[c] \o EmbedLog(c, a_i[c], FALSE))
  /\ collection' = collection

\* one iteration of `for i, chunk in enumerate(text_chunks)` (lines 76-106)
AddChunk(c) ==
  /\ pc[c] = "add"
  /\ a_i[c] < Len(a_chunks[c])
  /\ LET i == a_i[c]
         chunk == a_chunks[c][i + 1]
     IN IF IsBlank(chunk)
          THEN /\ NextChunkOfLoop(c, a_processed[c], a_log[c])
               /\ collection' = collection
          ELSE \E apiOk \in BOOLEAN :
                 LET emb == GenerateEmbedding(chunk, oa_client[c], apiOk).value
                 IN IF emb = None
                      THEN AfterEmbeddingFailure(c)
                      ELSE \E suffix \in Suffixes, storeOk \in BOOLEAN :
                             LET rec == StoredRecord(chunk, emb, a_src[c], i, suffix,
                                                     <<c, ncalls[c]>>)
                                 log1 == a_log[c] \o EmbedLog(c, i, TRUE)
                             IN IF storeOk
                                  THEN /\ collection' = CollectionAdd(collection, rec)
                                       /\ NextChunkOfLoop(c, a_processed[c] + 1,
                                            Append(log1, Ev("write", i, TRUE, rec.id)))
                                  ELSE /\ collection' = collection
                                       /\ AddAborted(c)
  /\ UNCHANGED <<oa_client, coll_h, ncalls, del_ids>>

\* what the code after the loop returns (lines 111-127)
AddReturnValue(processed) == processed > 0

\* the code after the loop (lines 108-127)
AddFinish(c) ==
  /\ pc[c] = "add"
  /\ a_i[c] = Len(a_chunks[c])
  /\ pc' = [pc EXCEPT ![c] = "idle"]
  /\ Returned(c, "add", TryExcept(Returns(AddReturnValue(a_processed[c])), FALSE), FALSE)
  /\ AddLocalsGone(c)
  /\ UNCHANGED <<collection, oa_client, coll_h, ncalls, del_ids>>

\* ---- delete_all_documents (lines 199-216) ----
\* a get() that answers with one page of a single id
AllIdsFirstOnly(coll) ==
  IF coll = {} THEN {} ELSE {CHOOSE id \in {r.id : r \in coll} : TRUE}

AllIds(coll) == {r.id : r \in coll}

\* the return of delete_all_documents together with the count it reports:
\* `Deleted {n} documents` (n), `No documents to delete` (0), or no report (None)
DeleteReturned(c, r, failed, n) ==
  ret' = [ret EXCEPT ![c] = [op |-> "delete_all", value |-> r.value, exc |-> r.exc,
                             failed |-> failed,
                             call |-> IF pc[c] = "idle" THEN ncalls[c] + 1 ELSE ncalls[c],
                             deleted |-> n]]

\* all_docs = self.collection.get()
DeleteGet(c) ==
  /\ BeginCall(c)
  /\ IF ~coll_h[c]
       THEN /\ DeleteReturned(c, TryExcept(Returns(FALSE), FALSE), FALSE, None)
            /\ UNCHANGED <<pc, del_ids>>
       ELSE \E storeOk \in BOOLEAN :
              IF ~storeOk
                THEN /\ DeleteReturned(c, TryExcept(Raised, FALSE), TRUE, None)
                     /\ UNCHANGED <<pc, del_ids>>
                ELSE IF AllIds(collection) = {}
                  THEN /\ DeleteReturned(c, TryExcept(Returns(TRUE), FALSE), FALSE, 0)
                       /\ UNCHANGED <<pc, del_ids>>
                  ELSE /\ del_ids' = [del_ids EXCEPT ![c] = AllIds(collection)]
                       /\ pc' = [pc EXCEPT ![c] = "del"]
                       /\ ret' = ret
  /\ UNCHANGED <<collection, oa_client, coll_h, a_chunks, a_src, a_i, a_processed, a_log>>

\* a delete that reads the ids again when it deletes
DeletedIdsReread(ids, coll) == AllIds(coll)

\* the ids handed to collection.delete: those read before (lines 204-207)
DeletedIds(ids, coll) == ids

\* self.collection.delete(ids=all_docs["ids"])
DeleteDo(c) ==
  /\ pc[c] = "del"
  /\ pc' = [pc EXCEPT ![c] = "idle"]
  /\ \E storeOk \in BOOLEAN :
       IF storeOk
         THEN /\ collection' = {r \in collection :
                                   r.id \notin DeletedIds(del_ids[c], collection)}
              /\ DeleteReturned(c, TryExcept(Returns(TRUE), FALSE), FALSE,
                                Cardinality(del_ids[c]))
         ELSE /\ collection' = collection
              /\ DeleteReturned(c, TryExcept(Raised, FALSE), TRUE, None)
  /\ del_ids' = [del_ids EXCEPT ![c] = {}]
  /\ UNCHANGED <<oa_client, coll_h, ncalls, a_chunks, a_src, a_i, a_processed, a_log>>

\* ---- get_collection_stats (lines 182-197) ----
ZeroStats == [total_documents |-> 0, collection_exists |-> FALSE]

GetCollectionStatsUnguarded(hasColl, storeOk, coll) ==
  IF ~hasColl THEN NoExcept(Returns(ZeroStats), ZeroStats)
  ELSE NoExcept(IF storeOk
                  THEN Returns([total_documents |-> Cardinality(coll),
                                collection_exists |-> TRUE])
                  ELSE Raised, ZeroStats)

GetCollectionStats(hasColl, storeOk, coll) ==
  IF ~hasColl THEN TryExcept(Returns(ZeroStats), ZeroStats)
  ELSE TryExcept(IF storeOk
                   THEN Returns([total_documents |-> Cardinality(coll),
                                 collection_exists |-> TRUE])
                   ELSE Raised, ZeroStats)

GetCollectionStatsCall(c) ==
  /\ BeginCall(c)
  /\ \E storeOk \in BOOLEAN :
       Returned(c, "stats", GetCollectionStats(coll_h[c], storeOk, collection),
                coll_h[c] /\ ~storeOk)
  /\ UNCHANGED <<collection, oa_client, coll_h, pc, a_chunks, a_src, a_i, a_processed,
                 a_log, del_ids>>

\* ---- get_documents_by_source (lines 218-244) ----
SourceNames == {src[2] : src \in Sources}

GetDocumentsBySource(hasColl, storeOk, coll, source_name) ==
  IF ~hasColl THEN TryExcept(Returns({}), {})
  ELSE TryExcept(IF storeOk
                   THEN Returns({[document |-> r.document, source_name |-> r.source_name,
                                  chunk_index |-> r.chunk_index] :
                                 r \in {x \in coll : x.source_name = source_name}})
                   ELSE Raised, {})

GetDocumentsBySourceCall(c) ==
  /\ BeginCall(c)
  /\ \E storeOk \in BOOLEAN, name \in SourceNames :
       Returned(c, "get_by_source",
                GetDocumentsBySource(coll_h[c], storeOk, collection, name),
                coll_h[c] /\ ~storeOk)
  /\ UNCHANGED <<collection, oa_client, coll_h, pc, a_chunks, a_src, a_i, a_processed,
                 a_log, del_ids>>

\* ---- similarity_search (lines 133-180) ----
SIMILARITY_SEARCH_RESULTS == 3

Queries == {<<"a">>, <<"b">>, <<"c">>, <<" ">>}

Dot(u, v) == u[1] * v[1] + u[2] * v[2]

\* the squared L2 distance, Chroma's metric when no space is configured
SquaredL2Distance(u, v) ==
  (u[1] - v[1]) * (u[1] - v[1]) + (u[2] - v[2]) * (u[2] - v[2])

\* the cosine distance Chroma reports for two unit vectors
CosineDistance(u, v) == 1 - Dot(u, v)

Nearest(coll, q) ==
  {r \in coll : \A x \in coll : CosineDistance(q, r.embedding) <= CosineDistance(q, x.embedding)}

\* collection.query(query_embeddings=[q], n_results=n): the n nearest records,
\* nearest first, records at equal distance in any order
RECURSIVE TopK(_, _, _)
TopK(coll, q, n) ==
  IF n = 0 \/ coll = {} THEN {<<>>}
  ELSE UNION {{<<r>> \o t : t \in TopK(coll \ {r}, q, n - 1)} : r \in Nearest(coll, q)}

SimilarityScoreNegated(distance) == distance - 1

\* `1 - results["distances"][0][i]`
SimilarityScore(distance) == 1 - distance

SearchResults(raw, q) ==
  [k \in 1..Len(raw) |->
     [document |-> raw[k].document,
      metadata |-> [source_type |-> raw[k].source_type,
                    source_name |-> raw[k].source_name,
                    chunk_index |-> raw[k].chunk_index],
      similarity_score |-> SimilarityScore(CosineDistance(q, raw[k].embedding)),
      distance |-> CosineDistance(q, raw[k].embedding)]]

\* qe: what generate_embedding(query) returned; raw: what the store answers
SimilaritySearch(hasColl, qe, storeOk, raw) ==
  IF ~hasColl THEN TryExcept(Returns(<<>>), <<>>)
  ELSE IF qe = None THEN TryExcept(Returns(<<>>), <<>>)
  ELSE TryExcept(IF storeOk THEN Returns(SearchResults(raw, qe)) ELSE Raised, <<>>)

\* a search that queries the store although the query has no embedding
NearestNeighbourQueriesUnguarded(hasColl, qe) == IF hasColl THEN 1 ELSE 0

\* the number of collection.query calls of one similarity_search (lines 137-154)
NearestNeighbourQueries(hasColl, qe) == IF hasColl /\ qe # None THEN 1 ELSE 0

\* the return of similarity_search with the call it belongs to: its query,
\* whether self.collection was set, and the remote requests it issued
SimilaritySearchReturned(c, r, failed, query, apiOk, qe) ==
  ret' = [ret EXCEPT ![c] =
            [op |-> "similarity_search", value |-> r.value, exc |-> r.exc,
             failed |-> failed,
             call |-> IF pc[c] = "idle" THEN ncalls[c] + 1 ELSE ncalls[c],
             query |-> query,
             had_collection |-> coll_h[c],
             embed_requests |-> IF coll_h[c]
                                  THEN EmbeddingRequests(query, oa_client[c], apiOk)
                                  ELSE 0,
             embedded |-> coll_h[c] /\ qe # None,
             nn_queries |-> NearestNeighbourQueries(coll_h[c], qe)]]

\* the store rows a query for `query` may answer with
RawAnswers(coll, qe) ==
  IF qe = None THEN {<<>>} ELSE TopK(coll, qe, SIMILARITY_SEARCH_RESULTS)

SimilaritySearchCall(c) ==
  /\ BeginCall(c)
  /\ \E query \in Queries, apiOk \in BOOLEAN, storeOk \in BOOLEAN :
       LET qe == GenerateEmbedding(query, oa_client[c], apiOk).value
       IN \E raw \in RawAnswers(collection, qe) :
            SimilaritySearchReturned(c, SimilaritySearch(coll_h[c], qe, storeOk, raw),
                     coll_h[c] /\ ~IsBlank(query) /\ (qe = None \/ ~storeOk),
                     query, apiOk, qe)
  /\ UNCHANGED <<collection, oa_client, coll_h, pc, a_chunks, a_src, a_i, a_processed,
                 a_log, del_ids>>

InitVdbVars ==
  /\ collection = {}
  /\ oa_client = [c \in Callers |-> FALSE]
  /\ coll_h = [c \in Callers |-> FALSE]
  /\ pc = [c \in Callers |-> "idle"]
  /\ ncalls = [c \in Callers |-> 0]
  /\ a_chunks = [c \in Callers |-> <<>>]
  /\ a_src = [c \in Callers |-> None]
  /\ a_i = [c \in Callers |-> 0]
  /\ a_processed = [c \in Callers |-> 0]
  /\ a_log = [c \in Callers |-> <<>>]
  /\ del_ids = [c \in Callers |-> {}]
  /\ ret = [c \in Callers |-> [op |-> "none", value |-> None, exc |-> FALSE,
                               failed |-> FALSE, call |-> 0]]

(***************************************************************************)
(* WebSearcher (web_search.py)                                             *)
(***************************************************************************)
WebItems == {[title |-> "t1", snippet |-> "s1", link |-> "l1"],
             [title |-> "t2", snippet |-> "s2", link |-> "l2"]}

\* what the HTTP POST to Serper does: 200 with an "organic" array, 200 without
\* one, another status, or an exception of the HTTP client
HttpOutcomes ==
  {[kind |-> "organic", items |-> items] : items \in SeqsUpTo(WebItems, 2)}
    \cup {[kind |-> k, items |-> <<>>] : k \in {"no_organic", "non200", "exception"}}

\* WebSearcher(api_key).enabled
WebSearcherState(has_key) == IF has_key THEN "enabled" ELSE "disabled"

\* a search that posts its request whether or not it is enabled
WebSearchRequestsAlways(state, http) == 1

\* a search that posts a second time after a non-200 answer or an exception
WebSearchRequestsRetried(state, http) ==
  IF state # "enabled" THEN 0
  ELSE IF http.kind \in {"non200", "exception"} THEN 2 ELSE 1

\* the number of requests.post calls of one search (lines 16-28)
WebSearchRequests(state, http) == IF state # "enabled" THEN 0 ELSE 1

\* WebSearcher.search (lines 13-53)
WebSearch(state, http) ==
  IF state # "enabled" THEN [value |-> <<>>, requests |-> WebSearchRequests(state, http)]
  ELSE [value |-> TryExcept(
                    IF http.kind = "exception" THEN Raised
                    ELSE IF http.kind = "organic"
                      THEN Returns([k \in 1..Len(http.items) |->
                                     [title |-> http.items[k].title,
                                      snippet |-> http.items[k].snippet,
                                      link |-> http.items[k].link,
                                      source |-> "web_search"]])
                      ELSE Returns(<<>>), <<>>).value,
        requests |-> WebSearchRequests(state, http)]

(***************************************************************************)
(* RAGSystem (rag_system.py)                                               *)
(***************************************************************************)
S == "s1"

\* documents handed to add_document: empty, blank, one word, padded, two letters
DocInputs == {<<>>, <<" ">>, <<"a">>, <<"b">>, <<" ", "a">>, <<"b", "c">>}

\* RAGSystem.initialize (lines 19-43): vector_db.initialize ran up to `step`,
\* genai.Client(...) succeeds iff clientOk
RagInitializeResult(step, clientOk) ==
  TryExcept(IF step # "ok" THEN Returns(FALSE)
            ELSE IF clientOk THEN Returns(TRUE) ELSE Raised, FALSE)

RagInitialize(has_serper, step, clientOk) ==
  /\ VdbInitialize(S, step)
  /\ IF step = "ok" /\ clientOk
       THEN /\ gen_client' = TRUE
            /\ ws' = WebSearcherState(has_serper)
       ELSE UNCHANGED <<gen_client, ws>>

\* initialize(gemini_api_key, serper_api_key) with a Serper key (TRUE) or
\* None (FALSE) drawn from key_choices
RagInitializeWith(key_choices) ==
  /\ pc[S] = "idle" /\ g_pc = "idle"
  /\ ~(coll_h[S] /\ gen_client)
  /\ \E has_serper \in key_choices, step \in InitSteps, clientOk \in BOOLEAN :
       /\ RagInitialize(has_serper, step, clientOk)
       /\ Returned(S, "rag_initialize", RagInitializeResult(step, clientOk),
                   ~(step = "ok" /\ clientOk))
  /\ UNCHANGED <<collection, pc, ncalls, a_chunks, a_src, a_i, a_processed, a_log,
                 del_ids>>
  /\ UNCHANGED <<g_pc, g_query, g_include, g_vec, g_web, g_retr, g_events, g_result>>

RagInitializeCall == RagInitializeWith(BOOLEAN)

\* web_searcher.search(query) called on the searcher of an initialised
\* RAGSystem; the return is kept with the call it belongs to: its query, the
\* searcher's enabled flag, the HTTP requests posted and the answer received
WebSearchCall ==
  /\ BeginCall(S) /\ g_pc = "idle"
  /\ ws # "none"
  /\ \E query \in Queries, http \in HttpOutcomes :
       ret' = [ret EXCEPT ![S] =
                 [op |-> "web_search", value |-> WebSearch(ws, http).value,
                  exc |-> FALSE,
                  failed |-> ws = "enabled" /\ http.kind \in {"non200", "exception"},
                  call |-> ncalls[S] + 1,
                  query |-> query,
                  enabled |-> ws = "enabled",
                  requests |-> WebSearch(ws, http).requests,
                  answer |-> IF ws = "enabled" THEN http.kind ELSE None]]
  /\ UNCHANGED <<collection, oa_client, coll_h, pc, a_chunks, a_src, a_i, a_processed,
                 a_log, del_ids>>

\* the return of a rejected add_document, kept with the text it was given
AddDocumentRejected(text) ==
  /\ ret' = [ret EXCEPT ![S] = [op |-> "add", value |-> FALSE, exc |-> FALSE,
                                failed |-> FALSE, call |-> ncalls[S] + 1,
                                text |-> text]]
  /\ UNCHANGED <<pc, a_chunks, a_src, a_i, a_processed, a_log>>

\* an add_document that hands a text it should reject to the store as one chunk
AddDocumentUnchecked(text, src) ==
  LET chunks == ChunkText(text, CHUNK_SIZE, CHUNK_OVERLAP)
  IN AddEnter(S, IF chunks = <<>> THEN <<text>> ELSE chunks, src)

\* add_document (lines 45-58)
AddDocument(text, src) ==
  IF text = <<>> \/ IsBlank(text)
    THEN AddDocumentRejected(text)
    ELSE LET chunks == ChunkText(text, CHUNK_SIZE, CHUNK_OVERLAP)
         IN IF chunks = <<>>
              THEN AddDocumentRejected(text)
              ELSE AddEnter(S, chunks, src)

AddDocumentCall ==
  /\ BeginCall(S) /\ g_pc = "idle"
  /\ \E text \in DocInputs, src \in Sources : AddDocument(text, src)
  /\ UNCHANGED <<collection, oa_client, coll_h, del_ids>>

\* "\n\n".join(context_parts): text as a sequence of tokens
ParagraphBreak == "\n\n"

RECURSIVE Join(_)
Join(parts) ==
  IF parts = <<>> THEN <<>>
  ELSE IF Len(parts) = 1 THEN parts[1]
  ELSE parts[1] \o <<ParagraphBreak>> \o Join(Tail(parts))

\* f"Web Result: {result['title']} - {result['snippet']}"
WebPart(r) == <<"Web Result: ", r.title, " - ", r.snippet>>

VectorSource(r) ==
  [type |-> "vector_db", source |-> r.metadata.source_name, similarity |-> r.similarity_score]

WebSource(r) == [type |-> "web_search", source |-> r.title, link |-> r.link]

\* a retrieval that lists the web results first
RetrievalWebFirst(vec, web) ==
  [context |-> Join([k \in 1..Len(web) |-> WebPart(web[k])]
                    \o [k \in 1..Len(vec) |-> vec[k].document]),
   sources |-> [k \in 1..Len(web) |-> WebSource(web[k])]
               \o [k \in 1..Len(vec) |-> VectorSource(vec[k])],
   vector_results |-> Len(vec),
   web_results |-> Len(web)]

\* what retrieve_context returns for its two result lists (lines 63-108)
Retrieval(vec, web) ==
  [context |-> Join([k \in 1..Len(vec) |-> vec[k].document]
                    \o [k \in 1..Len(web) |-> WebPart(web[k])]),
   sources |-> [k \in 1..Len(vec) |-> VectorSource(vec[k])]
               \o [k \in 1..Len(web) |-> WebSource(web[k])],
   vector_results |-> Len(vec),
   web_results |-> Len(web)]

WebSearchWantedIgnoringFlag(include, state) == state = "enabled"

\* `include_web_search and self.web_searcher and self.web_searcher.enabled`
WebSearchWanted(include, state) == include /\ state # "none" /\ state = "enabled"

NoRetrieval == [context |-> <<>>, sources |-> <<>>, vector_results |-> 0, web_results |-> 0]

\* the canned result of the except branch (lines 142-150)
Canned ==
  [response |-> "I apologize, but I encountered an error generating a response. Please try again.",
   context_used |-> <<>>, sources |-> <<>>, vector_results_count |-> 0,
   web_results_count |-> 0]

\* a prompt builder called with its two arguments exchanged
BuildSystemPromptSwapped(context, query) ==
  <<"You are a helpful AI assistant ... CONTEXT FROM KNOWLEDGE BASE:">> \o query
    \o <<"INSTRUCTIONS: ... USER QUESTION: ">> \o context
    \o <<"Please provide a comprehensive response based on the available context.">>

\* _build_system_prompt (lines 152-169)
BuildSystemPrompt(context, query) ==
  <<"You are a helpful AI assistant ... CONTEXT FROM KNOWLEDGE BASE:">> \o context
    \o <<"INSTRUCTIONS: ... USER QUESTION: ">> \o query
    \o <<"Please provide a comprehensive response based on the available context.">>

MAX_TOKENS == 1500
\* TEMPERATURE = 0.7, kept as the literal of config.py
TEMPERATURE == "0.7"

\* client.models.generate_content(model=..., contents=system_prompt, config=...)
\* (lines 123-130): a string passed as `contents` is one user-role content; no
\* system_instruction is given
ChatRequest(system_prompt) ==
  [contents |-> <<[role |-> "user", text |-> system_prompt]>>,
   system_instruction |-> None,
   max_output_tokens |-> MAX_TOKENS,
   temperature |-> TEMPERATURE]

GeneratedText == "generated text"

GenerationOf(retr) ==
  [response |-> GeneratedText, context_used |-> retr.context, sources |-> retr.sources,
   vector_results_count |-> retr.vector_results, web_results_count |-> retr.web_results]

GenerateResponseUnguarded(retr, chatOk) ==
  NoExcept(IF chatOk THEN Returns(GenerationOf(retr)) ELSE Raised, Canned)

\* the try/except of generate_response around retrieval and chat call (lines 113-150)
GenerateResponseResult(retr, chatOk) ==
  TryExcept(IF chatOk THEN Returns(GenerationOf(retr)) ELSE Raised, Canned)

GEvent(kind, ok) == [kind |-> kind, ok |-> ok]

\* generate_response is entered (line 113-114)
GenStart(include_choices) ==
  /\ BeginCall(S) /\ g_pc = "idle"
  /\ \E query \in Queries, include \in include_choices :
       /\ g_query' = query
       /\ g_include' = include
  /\ g_pc' = "vector"
  /\ g_vec' = <<>> /\ g_web' = <<>> /\ g_retr' = NoRetrieval /\ g_events' = <<>>
  /\ UNCHANGED <<g_result, gen_client, ws>>
  /\ UNCHANGED <<collection, oa_client, coll_h, pc, a_chunks, a_src, a_i, a_processed,
                 a_log, del_ids, ret>>

\* retrieve_context: vector_db.similarity_search(query) and the loop over its
\* results (lines 67-80), then the test of line 84
GenVector ==
  /\ g_pc = "vector"
  /\ \E apiOk \in BOOLEAN, storeOk \in BOOLEAN :
       LET qe == GenerateEmbedding(g_query, oa_client[S], apiOk).value
           embReq == IF coll_h[S] THEN EmbeddingRequests(g_query, oa_client[S], apiOk)
                     ELSE 0
           nnReq == NearestNeighbourQueries(coll_h[S], qe)
       IN \E raw \in RawAnswers(collection, qe) :
            LET vec == SimilaritySearch(coll_h[S], qe, storeOk, raw).value
                ev == <<GEvent("vector_search", TRUE)>>
                      \o [k \in 1..embReq |-> GEvent("embedding", qe # None)]
                      \o [k \in 1..nnReq |-> GEvent("nn_query", storeOk)]
            IN /\ g_vec' = vec
               /\ g_events' = g_events \o ev
               /\ IF WebSearchWanted(g_include, ws)
                    THEN /\ g_pc' = "web"
                         /\ g_retr' = g_retr
                    ELSE /\ g_pc' = "chat"
                         /\ g_retr' = Retrieval(vec, <<>>)
  /\ UNCHANGED <<g_query, g_include, g_web, g_result, gen_client, ws>>
  /\ UNCHANGED vdbVars

\* retrieve_context: web_searcher.search(query) and the loop over its results
\* (lines 85-101), then the return (lines 103-108)
GenWeb ==
  /\ g_pc = "web"
  /\ \E http \in HttpOutcomes :
       LET r == WebSearch(ws, http)
       IN /\ g_web' = r.value
          /\ g_events' = g_events \o <<GEvent("web_search", TRUE)>>
               \o [k \in 1..r.requests |->
                     GEvent("http", http.kind \in {"organic", "no_organic"})]
          /\ g_retr' = Retrieval(g_vec, r.value)
  /\ g_pc' = "chat"
  /\ UNCHANGED <<g_query, g_include, g_vec, g_result, gen_client, ws>>
  /\ UNCHANGED vdbVars

\* the prompt, the chat call and the return (lines 116-150); the call raises
\* when the client is unset, the request fails or the answer has no text
GenChat ==
  /\ g_pc = "chat"
  /\ \E answer \in {"ok", "error", "malformed"} :
       LET chatOk == gen_client /\ answer = "ok"
       IN /\ g_events' = g_events
               \o (IF gen_client
                     THEN <<[kind |-> "chat", ok |-> chatOk,
                             prompt |-> BuildSystemPrompt(g_retr.context, g_query),
                             request |-> ChatRequest(
                                           BuildSystemPrompt(g_retr.context, g_query))]>>
                     ELSE <<GEvent("no_client", FALSE)>>)
          /\ g_result' = GenerateResponseResult(g_retr, chatOk)
  /\ g_pc' = "idle"
  /\ UNCHANGED <<g_query, g_include, g_vec, g_web, g_retr, gen_client, ws>>
  /\ UNCHANGED vdbVars

InitRagVars ==
  /\ gen_client = FALSE
  /\ ws = "none"
  /\ g_pc = "idle"
  /\ g_query = <<>>
  /\ g_include = FALSE
  /\ g_vec = <<>>
  /\ g_web = <<>>
  /\ g_retr = NoRetrieval
  /\ g_events = <<>>
  /\ g_result = [value |-> None, exc |-> FALSE]

(***************************************************************************)
(* The Streamlit script (main.py, config.py)                               *)
(***************************************************************************)
\* validate_config (config.py lines 35-49)
ValidateConfig(has_openai, has_serper) == has_openai /\ has_serper

MainGateNoReturn(init_ok) == "tabs"

\* main (lines 56-72): `if not initialize_system(): ... return`
MainGate(init_ok) == IF init_ok THEN "tabs" ELSE "blocked"

\* a script run starts: main() up to the tabs (lines 51-72)
RunStart ==
  /\ run_pc \in {"idle", "blocked"}
  /\ pc[S] = "idle" /\ g_pc = "idle"
  /\ IF system_initialized
       THEN /\ run_pc' = "tabs"
            /\ UNCHANGED <<rag_system, system_initialized, oa_client, coll_h,
                           gen_client, ws>>
       ELSE IF ~ValidateConfig(openai_key, serper_key)
         THEN /\ run_pc' = MainGate(FALSE)
              /\ UNCHANGED <<rag_system, system_initialized, oa_client, coll_h,
                             gen_client, ws>>
         ELSE \E step \in InitSteps, clientOk \in BOOLEAN :
                LET ok == RagInitializeResult(step, clientOk).value
                IN /\ rag_system' = TRUE
                   /\ RagInitialize(serper_key, step, clientOk)
                   /\ system_initialized' = ok
                   /\ run_pc' = MainGate(ok)
  /\ UNCHANGED <<openai_key, serper_key, chat_history>>
  /\ UNCHANGED <<collection, pc, ncalls, a_chunks, a_src, a_i, a_processed, a_log,
                 del_ids, ret>>
  /\ UNCHANGED <<g_pc, g_query, g_include, g_vec, g_web, g_retr, g_events, g_result>>
  /\ UNCHANGED <<ckVars, labVars>>

\* web_search_interface (lines 218-222): web_searcher.search(search_query, n)
WebSearchTab ==
  /\ BeginCall(S) /\ g_pc = "idle"
  /\ \E http \in HttpOutcomes :
       Returned(S, "web_search", [value |-> WebSearch(ws, http).value, exc |-> ws = "none"],
                http.kind \in {"non200", "exception"})
  /\ UNCHANGED <<collection, oa_client, coll_h, pc, a_chunks, a_src, a_i, a_processed,
                 a_log, del_ids>>

\* the script run ends (the handlers of the tabs have returned)
RunEnd ==
  /\ run_pc = "tabs"
  /\ pc[S] = "idle" /\ g_pc = "idle"
  /\ run_pc' = "idle"
  /\ UNCHANGED <<openai_key, serper_key, rag_system, system_initialized, chat_history>>
  /\ UNCHANGED <<ckVars, vdbVars, ragVars, labVars>>

\* the message appended for the prompt (line 104)
UserMessage(prompt) == [role |-> "user", content |-> prompt]

\* the message appended for the result of generate_response (lines 118-124)
AssistantMessage(result) ==
  [role |-> "assistant", content |-> result.response, sources |-> result.sources]

\* a history that keeps only the answer
HistoryAfterAnswerLastOnly(history, result) == <<AssistantMessage(result)>>

\* chat_history.append({...assistant...}) (lines 118-124)
HistoryAfterAnswer(history, result) == Append(history, AssistantMessage(result))

\* chat_interface, a prompt was entered (lines 102-113): the user message is
\* appended and generate_response(prompt) is called
ChatSubmit ==
  /\ run_pc = "tabs"
  /\ GenStart({FALSE})
  /\ chat_history' = Append(chat_history, UserMessage(g_query'))
  /\ UNCHANGED <<openai_key, serper_key, rag_system, system_initialized, run_pc>>

\* generate_response returns to chat_interface (lines 113-126): the assistant
\* message is appended and st.rerun() ends the script run
ChatAnswer ==
  /\ run_pc = "tabs"
  /\ GenChat
  /\ chat_history' = HistoryAfterAnswer(chat_history, g_result'.value)
  /\ run_pc' = "idle"
  /\ UNCHANGED <<openai_key, serper_key, rag_system, system_initialized>>

InitMainVars ==
  /\ openai_key = FALSE
  /\ serper_key = FALSE
  /\ rag_system = FALSE
  /\ system_initialized = FALSE
  /\ chat_history = <<>>
  /\ run_pc = "idle"

(***************************************************************************)
(* Specifications                                                          *)
(***************************************************************************)
(***************************************************************************)
(* RAGEvaluator (rag_evaluation.py)                                        *)
(*                                                                         *)
(* A text is its words in order plus the number of whitespace characters   *)
(* around them beyond the single separators: str.split() drops the         *)
(* whitespace, len() counts it.  A score is the exact fraction n / d of    *)
(* the float the code computes.                                            *)
(***************************************************************************)
MaxWords == 2

Vocabulary == {"the", "RAG", "rag", "data", "what"}

\* str.lower() of a word
Lower(w) == IF w = "RAG" THEN "rag" ELSE w

\* len() of a word
WordLen(w) == IF w = "data" \/ w = "what" THEN 4 ELSE 3

Paddings == {0, 50}

EvalTexts == {[words |-> ws_, pad |-> p] : ws_ \in SeqsUpTo(Vocabulary, MaxWords),
                                          p \in Paddings}

EvalQuestions == {[words |-> ws_, pad |-> 0] : ws_ \in SeqsUpTo(Vocabulary, 2)}

RetrievedChunks == {[words |-> <<"RAG", "data">>, pad |-> 0],
                    [words |-> <<"the", "rag">>, pad |-> 0]}

\* `not text`: the empty string
IsEmptyStr(t) == t.words = <<>> /\ t.pad = 0

RECURSIVE SumLen(_)
SumLen(ws_) == IF ws_ = <<>> THEN 0 ELSE WordLen(Head(ws_)) + SumLen(Tail(ws_))

\* len(text)
StrLen(t) == SumLen(t.words) + Max(Len(t.words) - 1, 0) + t.pad

\* set(text.lower().split())
LowerWords(t) == {Lower(t.words[k]) : k \in 1..Len(t.words)}

\* the stop words of evaluate_faithfulness and evaluate_context_precision
\* (lines 52-67, 147-162), restricted to the vocabulary
StopWords == {"the"}

\* the stop words of evaluate_relevancy (lines 95-115)
StopWordsRelevancy == {"the", "what"}

Frac(n, d) == [n |-> n, d |-> d]
Zero == Frac(0, 1)
One == Frac(1, 1)

FracMin(a, b) == IF a.n * b.d <= b.n * a.d THEN a ELSE b
FracAdd(a, b) == Frac(a.n * b.d + b.n * a.d, a.d * b.d)

\* evaluate_faithfulness (lines 35-79)
EvaluateFaithfulness(question, answer, context) ==
  IF IsEmptyStr(context) \/ IsEmptyStr(answer) THEN Zero
  ELSE LET context_words == LowerWords(context) \ StopWords
           answer_words == LowerWords(answer) \ StopWords
       IN IF answer_words = {} THEN Zero
          ELSE FracMin(Frac(Cardinality(context_words \cap answer_words),
                            Cardinality(answer_words)), One)

\* a length bonus added without the cap
LengthBonusUncapped(score, answer) ==
  IF 50 <= StrLen(answer) /\ StrLen(answer) <= 500
    THEN FracAdd(score, Frac(1, 10)) ELSE score

\* `if 50 <= len(answer) <= 500: min(relevancy_score + 0.1, 1.0)` (lines 127-129)
LengthBonus(score, answer) ==
  IF 50 <= StrLen(answer) /\ StrLen(answer) <= 500
    THEN FracMin(FracAdd(score, Frac(1, 10)), One) ELSE score

\* evaluate_relevancy (lines 81-131)
EvaluateRelevancy(question, answer) ==
  IF IsEmptyStr(question) \/ IsEmptyStr(answer) THEN Zero
  ELSE LET question_words == LowerWords(question) \ StopWordsRelevancy
           answer_words == LowerWords(answer) \ StopWordsRelevancy
       IN IF question_words = {} THEN Frac(1, 2)
          ELSE LengthBonus(FracMin(Frac(Cardinality(question_words \cap answer_words),
                                        Cardinality(question_words)), One),
                           answer)

\* `if overlap >= 2` (lines 166-172)
RelevantChunk(question_words, chunk) ==
  Cardinality(question_words \cap (LowerWords(chunk) \ StopWords)) >= 2

\* evaluate_context_precision (lines 133-176)
EvaluateContextPrecision(question, retrieved_chunks) ==
  IF retrieved_chunks = <<>> \/ IsEmptyStr(question) THEN Zero
  ELSE LET question_words == LowerWords(question) \ StopWords
           relevant_chunks ==
             Cardinality({k \in 1..Len(retrieved_chunks) :
                            RelevantChunk(question_words, retrieved_chunks[k])})
       IN Frac(relevant_chunks, Len(retrieved_chunks))

NoText == [words |-> <<>>, pad |-> 0]

\* "\n\n".join(context_parts) of the retrieved documents (rag_system.py line
\* 103): the words of the parts, and one more character per separator
RECURSIVE ContextOf(_)
ContextOf(chunks) ==
  IF chunks = <<>> THEN NoText
  ELSE IF Len(chunks) = 1 THEN chunks[1]
  ELSE LET rest == ContextOf(Tail(chunks))
       IN [words |-> chunks[1].words \o rest.words,
           pad |-> chunks[1].pad + rest.pad + 1]

\* one question of run_evaluation (lines 194-226): the three metrics are
\* computed in this order on the answer and the retrieval of the question
FaithfulnessCall ==
  /\ ev_metric = "none"
  /\ ev_metric' = "faithfulness"
  /\ ev_score' = Append(ev_score, EvaluateFaithfulness(ev_question, ev_answer, ev_context))
  /\ UNCHANGED <<ev_question, ev_answer, ev_context, ev_chunks>>

RelevancyCall ==
  /\ ev_metric = "faithfulness"
  /\ ev_metric' = "relevancy"
  /\ ev_score' = Append(ev_score, EvaluateRelevancy(ev_question, ev_answer))
  /\ UNCHANGED <<ev_question, ev_answer, ev_context, ev_chunks>>

ContextPrecisionCall ==
  /\ ev_metric = "relevancy"
  /\ ev_metric' = "context_precision"
  /\ ev_score' = Append(ev_score, EvaluateContextPrecision(ev_question, ev_chunks))
  /\ UNCHANGED <<ev_question, ev_answer, ev_context, ev_chunks>>

InitEvalIdle ==
  /\ ev_metric = "none"
  /\ ev_question = NoText /\ ev_answer = NoText /\ ev_context = NoText
  /\ ev_chunks = <<>>
  /\ ev_score = <<>>

\* the question, the generated answer and the retrieved chunks of one
\* evaluation
InitEvalVars ==
  /\ ev_metric = "none"
  /\ ev_question \in EvalQuestions
  /\ ev_answer \in EvalTexts
  /\ ev_chunks \in SeqsUpTo(RetrievedChunks, 2)
  /\ ev_context = ContextOf(ev_chunks)
  /\ ev_score = <<>>

(***************************************************************************)
(* agent_lab/five_agent_team.py: the compiled StateGraph, run by           *)
(* app.invoke.  A graph runs in supersteps: the nodes of a superstep see   *)
(* the state as it was when the superstep began, run in any order, and     *)
(* their updates are applied together; the next superstep runs every node  *)
(* that has an edge from a node of this one.                               *)
(***************************************************************************)
StoryKeys == {"topic", "outline", "characters", "world_setting", "draft", "final_piece"}

\* workflow.add_edge(...) (lines 91-108)
StoryEdges ==
  {<<"START", "director">>,
   <<"director", "character_designer">>,
   <<"director", "world_builder">>,
   <<"character_designer", "world_builder">>,
   <<"world_builder", "writer">>,
   <<"writer", "editor">>,
   <<"editor", "END">>}

\* the key of the update a node returns (lines 39-79)
StoryWrites(n) ==
  CASE n = "director" -> "outline"
    [] n = "character_designer" -> "characters"
    [] n = "world_builder" -> "world_setting"
    [] n = "writer" -> "draft"
    [] n = "editor" -> "final_piece"

\* the keys a node reads from the state (lines 39-79)
StoryReads(n) ==
  CASE n = "director" -> {"topic"}
    [] n = "character_designer" -> {"outline"}
    [] n = "world_builder" -> {"outline"}
    [] n = "writer" -> {"outline", "characters", "world_setting"}
    [] n = "editor" -> {"draft"}

\* what the model answers: response.content
Contents == {"r1", "r2"}

\* the nodes triggered by the nodes that ran
Successors(edges, ran) == {e[2] : e \in {f \in edges : f[1] \in ran}} \ {"END"}

KeysSet(state) == {k \in StoryKeys : state[k] # None}

\* app.invoke({"topic": topic}) (lines 116-124)
StoryInvoke ==
  /\ sg_pc = "idle"
  /\ sg_pc' = "running"
  /\ sg_step' = 1
  /\ sg_state' = [k \in StoryKeys |-> IF k = "topic" THEN "topic" ELSE None]
  /\ sg_todo' = Successors(StoryEdges, {"START"})
  /\ sg_done' = {}
  /\ sg_writes' = {}
  /\ sg_trace' = <<>>

\* one node of the current superstep runs: it calls the model once and
\* returns its update; a call that raises ends the run
StoryNodeRun ==
  /\ sg_pc = "running"
  /\ \E n \in sg_todo, ok \in BOOLEAN, content \in Contents :
       /\ StoryReads(n) \subseteq KeysSet(sg_state)
       /\ sg_trace' = Append(sg_trace, [step |-> sg_step, node |-> n,
                                         saw |-> KeysSet(sg_state)])
       /\ IF ok
            THEN /\ sg_writes' = sg_writes \cup {<<StoryWrites(n), content>>}
                 /\ sg_todo' = sg_todo \ {n}
                 /\ sg_done' = sg_done \cup {n}
                 /\ sg_pc' = sg_pc
            ELSE /\ content = "r1"
                 /\ sg_pc' = "failed"
                 /\ UNCHANGED <<sg_writes, sg_todo, sg_done>>
  /\ UNCHANGED <<sg_step, sg_state>>

\* the superstep ends: the updates are applied and the next nodes scheduled
StorySuperstepEnd ==
  /\ sg_pc = "running"
  /\ sg_todo = {}
  /\ sg_state' = [k \in StoryKeys |->
                    IF \E w \in sg_writes : w[1] = k
                      THEN (CHOOSE w \in sg_writes : w[1] = k)[2]
                      ELSE sg_state[k]]
  /\ sg_todo' = Successors(StoryEdges, sg_done)
  /\ sg_pc' = IF Successors(StoryEdges, sg_done) = {} THEN "end" ELSE "running"
  /\ sg_step' = sg_step + 1
  /\ sg_done' = {}
  /\ sg_writes' = {}
  /\ UNCHANGED sg_trace

InitStoryIdle ==
  /\ sg_pc = "idle"
  /\ sg_step = 0
  /\ sg_state = [k \in StoryKeys |-> None]
  /\ sg_todo = {}
  /\ sg_done = {}
  /\ sg_writes = {}
  /\ sg_trace = <<>>

(***************************************************************************)
(* agent_lab/reflexion_agent.py: generate -> reflect -> should_loop        *)
(***************************************************************************)
MaxSupersteps == 8

\* what the generator answers
Drafts == {"d1", "d2"}

\* what the critic answers, as the words of response.content
Critiques == {<<"PERFECT">>, <<"almost", "PERFECT">>, <<"perfect">>, <<"add", "more">>}

\* `"PERFECT" in state["critique"]`
ContainsPerfect(critique) == \E k \in 1..Len(critique) : critique[k] = "PERFECT"

\* should_continue (lines 86-95): defined, and attached to no edge
ShouldContinue(iterations, critique) ==
  IF iterations > 2 THEN "end"
  ELSE IF ContainsPerfect(critique) THEN "end"
  ELSE "reflect"

\* should_loop (lines 97-106)
ShouldLoop(critique) == IF ContainsPerfect(critique) THEN "end" ELSE "generate"

\* app.stream(initial_state) (lines 138-148) up to the first node, START ->
\* generate (line 116)
ReflexStream ==
  /\ rf_node = "idle"
  /\ rf_node' = "generate"
  /\ rf_messages' = <<"question">>
  /\ rf_critique' = <<>>
  /\ rf_iterations' = 0
  /\ rf_steps' = 0

\* generation_node (lines 57-72), then the edge generate -> reflect (line 117)
GenerationNode ==
  /\ rf_node = "generate"
  /\ rf_steps < MaxSupersteps
  /\ \E ok \in BOOLEAN, response \in Drafts :
       IF ok
         THEN /\ rf_messages' = Append(rf_messages, response)
              /\ rf_iterations' = rf_iterations + 1
              /\ rf_node' = "reflect"
         ELSE /\ response = "d1"
              /\ rf_node' = "failed"
              /\ UNCHANGED <<rf_messages, rf_iterations>>
  /\ rf_steps' = rf_steps + 1
  /\ UNCHANGED rf_critique

\* reflection_node (lines 74-81), then the conditional edge (lines 119-126)
ReflectionNode ==
  /\ rf_node = "reflect"
  /\ rf_steps < MaxSupersteps
  /\ \E ok \in BOOLEAN, critique \in Critiques :
       IF ok
         THEN /\ rf_critique' = critique
              /\ rf_node' = ShouldLoop(critique)
         ELSE /\ critique = <<"PERFECT">>
              /\ rf_node' = "failed"
              /\ UNCHANGED rf_critique
  /\ rf_steps' = rf_steps + 1
  /\ UNCHANGED <<rf_messages, rf_iterations>>

InitReflexIdle ==
  /\ rf_node = "idle"
  /\ rf_messages = <<>>
  /\ rf_critique = <<>>
  /\ rf_iterations = 0
  /\ rf_steps = 0

InitLabIdle == InitEvalIdle /\ InitStoryIdle /\ InitReflexIdle

ChunkIdle ==
  /\ ck_text = <<>> /\ ck_size = 1 /\ ck_overlap = 0 /\ ck_start = 0
  /\ ck_chunks = <<>> /\ ck_iters = 0 /\ ck_pc = "entry"

\* chunk_text alone, over every bounded text, size and overlap
InitChunk == InitChunkVars /\ InitVdbVars /\ InitRagVars /\ InitMainVars /\ InitLabIdle

NextChunk == ChunkEntry \/ ChunkIter

SpecChunk == InitChunk /\ [][NextChunk]_vars

\* a call that has started runs on: the interpreter executes the next statement
SpecChunkFair == InitChunk /\ [][NextChunk]_vars /\ WF_vars(NextChunk)

\* sessions sharing the persistent collection: each holds its own
\* ChromaVectorDB and runs its methods step by step, interleaved with the others
Init == ChunkIdle /\ InitVdbVars /\ InitRagVars /\ InitMainVars /\ InitLabIdle

Next ==
  \/ \E c \in Callers : Initialize(c) /\ UNCHANGED <<ckVars, ragVars, mainVars, labVars>>
  \/ \E c \in Callers : AddStart(c) /\ UNCHANGED <<ckVars, ragVars, mainVars, labVars>>
  \/ \E c \in Callers : AddChunk(c) /\ UNCHANGED <<ckVars, ragVars, mainVars, labVars>>
  \/ \E c \in Callers : AddFinish(c) /\ UNCHANGED <<ckVars, ragVars, mainVars, labVars>>
  \/ \E c \in Callers : DeleteGet(c) /\ UNCHANGED <<ckVars, ragVars, mainVars, labVars>>
  \/ \E c \in Callers : DeleteDo(c) /\ UNCHANGED <<ckVars, ragVars, mainVars, labVars>>

Spec == Init /\ [][Next]_vars

\* one session calling every method of its ChromaVectorDB
NextVdb ==
  \/ Initialize(S) /\ UNCHANGED <<ckVars, ragVars, mainVars, labVars>>
  \/ GenerateEmbeddingCall(S) /\ UNCHANGED <<ckVars, ragVars, mainVars, labVars>>
  \/ AddStart(S) /\ UNCHANGED <<ckVars, ragVars, mainVars, labVars>>
  \/ AddChunk(S) /\ UNCHANGED <<ckVars, ragVars, mainVars, labVars>>
  \/ AddFinish(S) /\ UNCHANGED <<ckVars, ragVars, mainVars, labVars>>
  \/ SimilaritySearchCall(S) /\ UNCHANGED <<ckVars, ragVars, mainVars, labVars>>
  \/ GetCollectionStatsCall(S) /\ UNCHANGED <<ckVars, ragVars, mainVars, labVars>>
  \/ DeleteGet(S) /\ UNCHANGED <<ckVars, ragVars, mainVars, labVars>>
  \/ DeleteDo(S) /\ UNCHANGED <<ckVars, ragVars, mainVars, labVars>>
  \/ GetDocumentsBySourceCall(S) /\ UNCHANGED <<ckVars, ragVars, mainVars, labVars>>

SpecVdb == Init /\ [][NextVdb]_vars

\* one RAGSystem object used through its methods
NextRag ==
  \/ RagInitializeCall /\ UNCHANGED <<ckVars, mainVars, labVars>>
  \/ AddDocumentCall /\ UNCHANGED <<ckVars, ragVars, mainVars, labVars>>
  \/ AddChunk(S) /\ UNCHANGED <<ckVars, ragVars, mainVars, labVars>>
  \/ AddFinish(S) /\ UNCHANGED <<ckVars, ragVars, mainVars, labVars>>
  \/ GenStart(BOOLEAN) /\ UNCHANGED <<ckVars, mainVars, labVars>>
  \/ GenVector /\ UNCHANGED <<ckVars, mainVars, labVars>>
  \/ GenWeb /\ UNCHANGED <<ckVars, mainVars, labVars>>
  \/ GenChat /\ UNCHANGED <<ckVars, mainVars, labVars>>

SpecRag == Init /\ [][NextRag]_vars

\* a RAGSystem initialised with the configured Serper key, which may be
\* missing, and its web searcher called directly and through retrieval
InitWeb ==
  /\ ChunkIdle /\ InitVdbVars /\ InitRagVars /\ InitLabIdle
  /\ openai_key = TRUE
  /\ serper_key \in BOOLEAN
  /\ rag_system = FALSE
  /\ system_initialized = FALSE
  /\ chat_history = <<>>
  /\ run_pc = "idle"

NextWeb ==
  \/ RagInitializeWith({serper_key}) /\ UNCHANGED <<ckVars, mainVars, labVars>>
  \/ WebSearchCall /\ UNCHANGED <<ckVars, ragVars, mainVars, labVars>>
  \/ GenStart({TRUE}) /\ UNCHANGED <<ckVars, mainVars, labVars>>
  \/ GenVector /\ UNCHANGED <<ckVars, mainVars, labVars>>
  \/ GenWeb /\ UNCHANGED <<ckVars, mainVars, labVars>>
  \/ GenChat /\ UNCHANGED <<ckVars, mainVars, labVars>>

SpecWeb == InitWeb /\ [][NextWeb]_vars

\* the Streamlit session: script runs, the start-up gate, and the handlers of
\* the tabs (chat input, document upload), which run only past the gate
InitMain ==
  /\ ChunkIdle /\ InitVdbVars /\ InitRagVars /\ InitLabIdle
  /\ openai_key \in BOOLEAN
  /\ serper_key \in BOOLEAN
  /\ rag_system = FALSE
  /\ system_initialized = FALSE
  /\ chat_history = <<>>
  /\ run_pc = "idle"

NextMain ==
  \/ RunStart
  \/ RunEnd
  \/ ChatSubmit /\ UNCHANGED <<ckVars, labVars>>
  \/ run_pc = "tabs" /\ AddDocumentCall /\ UNCHANGED <<ckVars, ragVars, mainVars, labVars>>
  \/ AddChunk(S) /\ UNCHANGED <<ckVars, ragVars, mainVars, labVars>>
  \/ AddFinish(S) /\ UNCHANGED <<ckVars, ragVars, mainVars, labVars>>
  \/ run_pc = "tabs" /\ WebSearchTab /\ UNCHANGED <<ckVars, ragVars, mainVars, labVars>>
  \/ GenVector /\ UNCHANGED <<ckVars, mainVars, labVars>>
  \/ ChatAnswer /\ UNCHANGED <<ckVars, labVars>>

SpecMain == InitMain /\ [][NextMain]_vars

\* the metrics of the evaluator, over every bounded question, answer and
\* retrieval
InitEval ==
  /\ ChunkIdle /\ InitVdbVars /\ InitRagVars /\ InitMainVars
  /\ InitEvalVars /\ InitStoryIdle /\ InitReflexIdle

NextEval ==
  \/ FaithfulnessCall /\ UNCHANGED <<ckVars, vdbVars, ragVars, mainVars, storyVars, reflexVars>>
  \/ RelevancyCall /\ UNCHANGED <<ckVars, vdbVars, ragVars, mainVars, storyVars, reflexVars>>
  \/ ContextPrecisionCall
       /\ UNCHANGED <<ckVars, vdbVars, ragVars, mainVars, storyVars, reflexVars>>

SpecEval == InitEval /\ [][NextEval]_vars

\* one run of the five-agent story graph
NextStory ==
  \/ StoryInvoke /\ UNCHANGED <<ckVars, vdbVars, ragVars, mainVars, evalVars, reflexVars>>
  \/ StoryNodeRun /\ UNCHANGED <<ckVars, vdbVars, ragVars, mainVars, evalVars, reflexVars>>
  \/ StorySuperstepEnd
       /\ UNCHANGED <<ckVars, vdbVars, ragVars, mainVars, evalVars, reflexVars>>

SpecStory == Init /\ [][NextStory]_vars

\* one run of the reflexion graph
NextReflex ==
  \/ ReflexStream /\ UNCHANGED <<ckVars, vdbVars, ragVars, mainVars, evalVars, storyVars>>
  \/ GenerationNode /\ UNCHANGED <<ckVars, vdbVars, ragVars, mainVars, evalVars, storyVars>>
  \/ ReflectionNode /\ UNCHANGED <<ckVars, vdbVars, ragVars, mainVars, evalVars, storyVars>>

SpecReflex == Init /\ [][NextReflex]_vars

(***************************************************************************)
(* C1: for chunk size >= 1 and 0 <= overlap < size, chunk_text returns     *)
(* only chunks that are non-empty, carry no leading or trailing            *)
(* whitespace and are at most chunk_size long; for empty or                *)
(* whitespace-only text it returns the empty sequence.                     *)
(***************************************************************************)
Trimmed(s) == s # <<>> /\ Head(s) \notin Whitespace /\ s[Len(s)] \notin Whitespace

C1_ChunksTrimmedBounded ==
  (ck_pc = "done" /\ ck_overlap < ck_size) =>
     /\ \A k \in 1..Len(ck_chunks) :
          /\ Trimmed(ck_chunks[k])
          /\ Len(ck_chunks[k]) <= ck_size
     /\ (\A k \in 1..Len(ck_text) : ck_text[k] \in Whitespace) => ck_chunks = <<>>

\* a finished call on a text with padded windows that produced several chunks
C1_Witness ==
  /\ ck_pc = "done"
  /\ ck_overlap < ck_size
  /\ Len(ck_chunks) >= 2
  /\ \E k \in 1..Len(ck_chunks) : Len(ck_chunks[k]) < ck_size
  /\ ck_text[1] \in Whitespace

(***************************************************************************)
(* C2: during add, a chunk whose embedding fails is skipped and the loop   *)
(* goes on: every non-blank chunk before the loop position has had its     *)
(* embedding requested, every chunk whose embedding succeeded has been     *)
(* written to the store under its id, and the call ends before the last    *)
(* chunk only when a store write raised, never on an embedding failure.    *)
(***************************************************************************)
EmbedEvents(log, j) == {k \in 1..Len(log) : log[k].kind = "embed" /\ log[k].i = j}
WriteEvents(log, j) == {k \in 1..Len(log) : log[k].kind = "write" /\ log[k].i = j}

C2_LoopCoversEveryChunk ==
  \A c \in Callers :
    pc[c] = "add" =>
      \A j \in 0..(a_i[c] - 1) :
        ~IsBlank(a_chunks[c][j + 1]) =>
          /\ Cardinality(EmbedEvents(a_log[c], j)) = 1
          /\ \A k \in EmbedEvents(a_log[c], j) :
               a_log[c][k].ok => \E w \in WriteEvents(a_log[c], j) : a_log[c][w].ok

C2_StepNeverAbortsOnEmbedding ==
  \A c \in Callers :
    /\ (pc[c] = "add" /\ pc'[c] = "idle") =>
         (a_i[c] = Len(a_chunks[c]) \/ ret'[c].failed)
    /\ (pc[c] = "add" /\ pc'[c] = "add" /\ a_processed'[c] = a_processed[c] + 1) =>
         HasId(collection', a_log'[c][Len(a_log'[c])].id)

C3_FalseMeansNothingPersisted ==
  \A c \in Callers :
    (ret[c].op = "add" /\ ret[c].value = FALSE) =>
      ~\E r \in collection : r.by = <<c, ret[c].call>>

C9_StartupBlocked ==
  /\ (run_pc = "tabs" \/ pc[S] # "idle" \/ g_pc # "idle" \/ ncalls[S] > 0)
       => system_initialized
  /\ system_initialized =>
       /\ ValidateConfig(openai_key, serper_key)
       /\ rag_system /\ coll_h[S] /\ gen_client /\ ws = "enabled"
  /\ ~ValidateConfig(openai_key, serper_key) =>
       (run_pc \in {"idle", "blocked"} /\ ~rag_system)

\* both keys are set, the vector store came up, the chat client did not: the
\* run ended at the gate
C9_Witness ==
  /\ run_pc = "blocked"
  /\ openai_key /\ serper_key
  /\ coll_h[S] /\ ~gen_client
  /\ ~system_initialized

(***************************************************************************)
(* C10: while two callers are both inside add for the same source, every   *)
(* write that returns normally leaves the writer's record in the           *)
(* collection and removes no record of the other caller.                   *)
(***************************************************************************)
C10_StepKeepsBothCallersChunks ==
  \A c, d \in Callers :
    (/\ c # d
     /\ pc[c] = "add" /\ pc[d] = "add" /\ a_src[c] = a_src[d]
     /\ pc'[c] = "add" /\ a_processed'[c] = a_processed[c] + 1)
    => /\ \E r \in collection' : r.by = <<c, ncalls[c]>> /\ r.chunk_index = a_i[c]
       /\ \A r \in collection : r.by = <<d, ncalls[d]>> => r \in collection'

C10_ConcurrentAddsLoseNoChunk == [][C10_StepKeepsBothCallersChunks]_vars

(***************************************************************************)
(* C5 as stated: generate_response never raises, and whenever any remote   *)
(* call of it failed (query embedding, vector store, web search, chat      *)
(* completion) it returns the canned response with empty context, empty    *)
(* sources and zero counts.                                                *)
(***************************************************************************)
GenReturned == g_pc = "idle" /\ g_events # <<>>

SomeCallFailed == \E k \in 1..Len(g_events) : ~g_events[k].ok

ChatFailed == ~g_events[Len(g_events)].ok

C5_AnyFailureGivesCanned ==
  (GenReturned /\ SomeCallFailed) => (~g_result.exc /\ g_result.value = Canned)

(***************************************************************************)
(* C5 amended: generate_response never raises; it returns the canned       *)
(* response exactly when the chat-completion step failed (request error,   *)
(* malformed response, client unset).  A failure of the query embedding,  *)
(* the vector store or the web search is absorbed below it: with a         *)
(* successful chat call the generated response is returned with the        *)
(* counts of the results that were retrieved.                              *)
(***************************************************************************)
C5_NeverRaisesCannedOnChatFailure ==
  GenReturned =>
    /\ ~g_result.exc
    /\ ChatFailed => g_result.value = Canned
    /\ ~ChatFailed =>
         /\ g_result.value.response = GeneratedText
         /\ g_result.value.vector_results_count = Len(g_vec)
         /\ g_result.value.web_results_count = Len(g_web)
         /\ g_result.value.context_used = g_retr.context

\* the retrieval had found a chunk, the chat call failed, the canned response
\* was returned
C5_Witness ==
  /\ GenReturned
  /\ ChatFailed
  /\ Len(g_vec) >= 1
  /\ g_result.value = Canned

(***************************************************************************)
(* C6: in the result of retrieve_context the context lists every vector    *)
(* text before every web entry, parts separated by blank lines; sources    *)
(* has the same order, each entry tagged by its origin; and the number of  *)
(* sources is vector_results + web_results.                                *)
(***************************************************************************)
RetrieveReturned == g_pc = "chat" \/ GenReturned

CountOf(seq, tok) == Cardinality({k \in 1..Len(seq) : seq[k] = tok})

C6_VectorBeforeWeb ==
  RetrieveReturned =>
    LET nv == Len(g_vec)
        nw == Len(g_web)
        ctx == g_retr.context
        src == g_retr.sources
    IN /\ g_retr.vector_results = nv
       /\ g_retr.web_results = nw
       /\ Len(src) = g_retr.vector_results + g_retr.web_results
       /\ \A k \in 1..Len(src) :
            IF k <= nv
              THEN /\ src[k].type = "vector_db"
                   /\ src[k].source = g_vec[k].metadata.source_name
              ELSE /\ src[k].type = "web_search"
                   /\ src[k].source = g_web[k - nv].title
       /\ \A i, j \in 1..Len(ctx) :
            (i < j /\ ctx[i] = "Web Result: ") => ctx[j] \notin Chars
       /\ CountOf(ctx, "Web Result: ") = nw
       /\ CountOf(ctx, ParagraphBreak) = Max(nv + nw - 1, 0)
       /\ nv >= 1 => SubSeq(ctx, 1, Len(g_vec[1].document)) = g_vec[1].document

\* a retrieval with results of both origins
C6_Witness ==
  /\ g_pc = "chat"
  /\ g_retr.vector_results >= 1
  /\ g_retr.web_results >= 2

(***************************************************************************)
(* C7: when retrieve_context returns it has run exactly one vector         *)
(* similarity search, and one web search - after the vector search - if    *)
(* and only if include_web_search was passed and the web searcher exists   *)
(* and is enabled; otherwise no web request was issued.                    *)
(***************************************************************************)
EventsOf(kind) == {k \in 1..Len(g_events) : g_events[k].kind = kind}

C7_OneVectorSearchThenMaybeWeb ==
  /\ g_pc = "web" =>
       /\ Cardinality(EventsOf("vector_search")) = 1
       /\ EventsOf("web_search") = {} /\ EventsOf("http") = {}
  /\ g_pc = "chat" =>
       /\ Cardinality(EventsOf("vector_search")) = 1
       /\ Cardinality(EventsOf("web_search")) =
            IF g_include /\ ws = "enabled" THEN 1 ELSE 0
       /\ Cardinality(EventsOf("http")) <= Cardinality(EventsOf("web_search"))
       /\ \A w \in EventsOf("web_search") \cup EventsOf("http") :
            \A v \in EventsOf("vector_search") \cup EventsOf("embedding")
                       \cup EventsOf("nn_query") : v < w

\* retrieve_context returned after a vector search with hits and a web search
C7_Witness ==
  /\ g_pc = "chat"
  /\ g_include /\ ws = "enabled"
  /\ EventsOf("web_search") # {}
  /\ EventsOf("nn_query") # {}
  /\ Len(g_vec) >= 1


(***************************************************************************)
(* C8: no method of the vector store lets an exception of the store or of  *)
(* the embedding API reach its caller; a call in which one was raised      *)
(* returns the method's safe default (false, none, empty list, zeroed      *)
(* stats).                                                                 *)
(***************************************************************************)
SafeDefault(op) ==
  CASE op = "initialize" -> FALSE
    [] op = "generate_embedding" -> None
    [] op = "add" -> FALSE
    [] op = "similarity_search" -> <<>>
    [] op = "stats" -> ZeroStats
    [] op = "delete_all" -> FALSE
    [] op = "get_by_source" -> {}
    [] OTHER -> None

C8_NoMethodPropagates ==
  \A c \in Callers :
    /\ ~ret[c].exc
    /\ ret[c].failed => ret[c].value = SafeDefault(ret[c].op)

\* stats was called on an initialised store whose count() raised
C8_Witness ==
  /\ ret["s1"].op = "stats"
  /\ ret["s1"].failed
  /\ coll_h["s1"]

(***************************************************************************)
(* C11: for every text and 0 <= overlap < size, chunk_text terminates:     *)
(* the window start takes exactly the values 0, (size - overlap),          *)
(* 2 (size - overlap), ... and the loop stops at the first start that      *)
(* reaches or exceeds the text length.                                     *)
(***************************************************************************)
C11_Step == ck_size - ck_overlap

\* after k iterations the start is k steps; the loop runs while the start is
\* inside the text and is left at the first start outside it
C11_StartsAreMultiples ==
  (ck_overlap < ck_size /\ ck_pc \in {"loop", "done"}) =>
     /\ ck_start = ck_iters * C11_Step
     /\ ck_pc = "loop" => ck_start < Len(ck_text)
     /\ (ck_pc = "done" /\ ck_iters > 0) =>
          /\ ck_start >= Len(ck_text)
          /\ ck_start - C11_Step < Len(ck_text)

C11_Terminates ==
  /\ [](C11_StartsAreMultiples)
  /\ ((ck_overlap < ck_size) ~> (ck_pc = "done"))

\* a finished call whose window advanced more than once with a real overlap
\* and whose last start jumped past the end of the text
C11_Witness ==
  /\ ck_pc = "done"
  /\ ck_overlap > 0 /\ ck_overlap < ck_size
  /\ ck_iters >= 2
  /\ ck_start > Len(ck_text)

(***************************************************************************)
(* C12: for overlap O < chunk size C, concatenating the non-overlapping    *)
(* region of consecutive chunks (the first C - O characters of each chunk  *)
(* but the last, then the whole last chunk) reconstructs the original      *)
(* text, except for trimmed leading/trailing whitespace of the text.       *)
(***************************************************************************)
Take(s, n) == SubSeq(s, 1, Min(n, Len(s)))

RECURSIVE Reconstruct(_, _)
Reconstruct(chunks, keep) ==
  IF chunks = <<>> THEN <<>>
  ELSE IF Len(chunks) = 1 THEN chunks[1]
  ELSE Take(Head(chunks), keep) \o Reconstruct(Tail(chunks), keep)

\* the statement as made: the chunks give back the text up to the text's own
\* leading and trailing whitespace
C12_ReconstructsUpToOuterWhitespace ==
  (ck_pc = "done" /\ ck_overlap < ck_size) =>
     Reconstruct(ck_chunks, ck_size - ck_overlap) = Strip(ck_text)

\* every window of the text (one per start k (C - O) inside the text) neither
\* starts nor ends with whitespace, so trimming changes nothing and no window
\* is dropped
C12_NoWindowTrimmed ==
  \A k \in 0..Len(ck_text) :
     k * (ck_size - ck_overlap) < Len(ck_text) =>
        Trimmed(WindowRaw(ck_text, k * (ck_size - ck_overlap), ck_size))

\* C12 as amended: when no window starts or ends with whitespace, the
\* non-overlapping regions of the chunks concatenate to the original text
C12_ReconstructsWhenNoWindowTrimmed ==
  (ck_pc = "done" /\ ck_overlap < ck_size /\ C12_NoWindowTrimmed) =>
     Reconstruct(ck_chunks, ck_size - ck_overlap) = ck_text

\* overlapping windows over a text with inner whitespace, short last window
C12_Witness ==
  /\ ck_pc = "done"
  /\ ck_overlap > 0 /\ ck_overlap < ck_size
  /\ C12_NoWindowTrimmed
  /\ Len(ck_chunks) >= 2
  /\ Len(ck_chunks[Len(ck_chunks)]) < ck_size
  /\ \E k \in 1..Len(ck_text) : ck_text[k] \in Whitespace

(***************************************************************************)
(* C13: for text of length L, chunk size C and overlap O < C, chunk_text   *)
(* returns ceil(L / (C - O)) chunks when no window is whitespace-only,     *)
(* and never more than that number.                                        *)
(***************************************************************************)
CeilDiv(a, b) == (a + b - 1) \div b

C13_NoWindowBlank ==
  \A k \in 0..Len(ck_text) :
     k * (ck_size - ck_overlap) < Len(ck_text) =>
        ~IsBlank(WindowRaw(ck_text, k * (ck_size - ck_overlap), ck_size))

C13_ChunkCount ==
  (ck_pc = "done" /\ ck_overlap < ck_size) =>
     /\ Len(ck_chunks) <= CeilDiv(Len(ck_text), ck_size - ck_overlap)
     /\ C13_NoWindowBlank =>
          Len(ck_chunks) = CeilDiv(Len(ck_text), ck_size - ck_overlap)

\* a finished call with overlap whose length is no multiple of the step and
\* whose windows all carry text: the count is the rounded-up quotient
C13_Witness ==
  /\ ck_pc = "done"
  /\ ck_overlap > 0 /\ ck_overlap < ck_size
  /\ C13_NoWindowBlank
  /\ Len(ck_text) % (ck_size - ck_overlap) # 0
  /\ Len(ck_chunks) >= 2
  /\ \E k \in 1..Len(ck_text) : ck_text[k] \in Whitespace

(***************************************************************************)
(* C14: every result returned by similarity_search has                     *)
(* similarity_score = 1 - distance for the distance the store reported;    *)
(* in particular distance 0 gives similarity 1 and distance 1 gives        *)
(* similarity 0.                                                           *)
(***************************************************************************)
SearchReturned(c) == pc[c] = "idle" /\ ret[c].op = "similarity_search"

C14_SimilarityIsOneMinusDistance ==
  \A c \in Callers :
    SearchReturned(c) =>
      \A k \in 1..Len(ret[c].value) :
        LET r == ret[c].value[k]
        IN /\ r.similarity_score + r.distance = 1
           /\ r.distance = 0 => r.similarity_score = 1
           /\ r.distance = 1 => r.similarity_score = 0

\* a search that returned a record at distance 1 from the query
C14_Witness ==
  \E c \in Callers :
    /\ SearchReturned(c)
    /\ \E k \in 1..Len(ret[c].value) :
         ret[c].value[k].distance = 1 /\ ret[c].value[k].similarity_score = 0

(***************************************************************************)
(* C15: under the configured cosine distance, every similarity_score       *)
(* returned by similarity_search lies in [0,1].                            *)
(***************************************************************************)
C15_SimilarityInUnitInterval ==
  \A c \in Callers :
    SearchReturned(c) =>
      \A k \in 1..Len(ret[c].value) :
        /\ ret[c].value[k].similarity_score >= 0
        /\ ret[c].value[k].similarity_score <= 1

\* C15 as amended: the score lies in [-1,1], and in [0,1] exactly for the
\* records at cosine distance at most 1
C15_SimilarityInSignedUnitInterval ==
  \A c \in Callers :
    SearchReturned(c) =>
      \A k \in 1..Len(ret[c].value) :
        LET r == ret[c].value[k]
        IN /\ r.similarity_score >= 0 - 1
           /\ r.similarity_score <= 1
           /\ (r.similarity_score >= 0) <=> (r.distance <= 1)

\* a search that returned a record pointing away from the query
C15_Witness ==
  \E c \in Callers :
    /\ SearchReturned(c)
    /\ \E k \in 1..Len(ret[c].value) :
         ret[c].value[k].distance = 2 /\ ret[c].value[k].similarity_score = 0 - 1

(***************************************************************************)
(* C16: generate_response sends the grounding prompt as a system-role      *)
(* message and the user query as a separate user-role message to the chat  *)
(* endpoint, with the fixed max_tokens and temperature parameters.         *)
(***************************************************************************)
ChatEvents == {k \in 1..Len(g_events) : g_events[k].kind = "chat"}

\* the system-role part of a request: its system instruction, or a content
\* with role "system"
SystemTexts(req) ==
  (IF req.system_instruction = None THEN {} ELSE {req.system_instruction})
    \cup {req.contents[k].text : k \in {j \in 1..Len(req.contents) :
                                          req.contents[j].role = "system"}}

UserTexts(req) ==
  {req.contents[k].text : k \in {j \in 1..Len(req.contents) :
                                   req.contents[j].role = "user"}}

C16_SystemPromptAndUserQuery ==
  \A k \in ChatEvents :
    LET req == g_events[k].request
    IN /\ BuildSystemPrompt(g_retr.context, g_query) \in SystemTexts(req)
       /\ g_query \in UserTexts(req)
       /\ req.max_output_tokens = MAX_TOKENS
       /\ req.temperature = TEMPERATURE

(***************************************************************************)
(* C17: a successful generate_response performs exactly one retrieval and  *)
(* then exactly one chat-completion call whose prompt embeds that          *)
(* retrieval's context verbatim followed by the literal query, and the     *)
(* returned context_used, sources, vector_results_count and                *)
(* web_results_count are exactly those of that retrieval.                  *)
(***************************************************************************)
GenSucceeded == GenReturned /\ ~ChatFailed

KindCount(kind) == Cardinality({k \in 1..Len(g_events) : g_events[k].kind = kind})

C17_OneRetrievalThenOneChat ==
  GenSucceeded =>
    LET last == g_events[Len(g_events)]
        ctx == g_retr.context
    IN /\ KindCount("vector_search") = 1
       /\ g_events[1].kind = "vector_search"
       /\ KindCount("web_search") <= 1
       /\ KindCount("chat") = 1
       /\ last.kind = "chat"
       /\ Len(last.prompt) = Len(ctx) + Len(g_query) + 3
       /\ SubSeq(last.prompt, 2, Len(ctx) + 1) = ctx
       /\ SubSeq(last.prompt, Len(ctx) + 3, Len(ctx) + 2 + Len(g_query)) = g_query
       /\ g_retr = Retrieval(g_vec, g_web)
       /\ g_result.value.context_used = g_retr.context
       /\ g_result.value.sources = g_retr.sources
       /\ g_result.value.vector_results_count = g_retr.vector_results
       /\ g_result.value.web_results_count = g_retr.web_results

\* a generated answer grounded on a stored chunk and on web results
C17_Witness ==
  /\ GenSucceeded
  /\ g_retr.vector_results >= 1
  /\ g_retr.web_results >= 1
  /\ g_retr.context # g_query

(***************************************************************************)
(* C18: delete_all removes every record: after it returns success with no  *)
(* concurrent writer, the collection is empty and stats reports 0          *)
(* documents; on an already-empty collection it returns success and        *)
(* deletes nothing.                                                        *)
(***************************************************************************)
DeleteSucceeded(c) ==
  pc[c] = "idle" /\ ret[c].op = "delete_all" /\ ret[c].value = TRUE

C19_ExactlyOneRequestPerChunkAndQuery ==
  \A c \in Callers :
    /\ (pc[c] = "add" /\ a_i[c] = Len(a_chunks[c])) =>
         \A j \in 0..(Len(a_chunks[c]) - 1) :
           ~IsBlank(a_chunks[c][j + 1]) => Cardinality(EmbedEvents(a_log[c], j)) = 1
    /\ SearchReturned(c) => ret[c].embed_requests = 1

\* C19 as amended: never more than one request per chunk or query; exactly
\* one for every non-blank chunk the loop has reached and for every non-blank
\* query on an initialised store, none for a blank chunk or query, for a
\* chunk the loop has not reached, or on an uninitialised store
C19_OneRequestWhereOneIsDue ==
  \A c \in Callers :
    /\ pc[c] = "add" =>
         \A j \in 0..(Len(a_chunks[c]) - 1) :
           Cardinality(EmbedEvents(a_log[c], j)) =
             IF j < a_i[c] /\ ~IsBlank(a_chunks[c][j + 1]) THEN 1 ELSE 0
    /\ SearchReturned(c) =>
         ret[c].embed_requests =
           IF ret[c].had_collection /\ ~IsBlank(ret[c].query) THEN 1 ELSE 0

\* a search whose one embedding request failed, then an add whose first
\* chunk failed to embed and whose second chunk was embedded
C19_Witness ==
  /\ ret[S].op = "similarity_search"
  /\ ret[S].failed /\ ret[S].embed_requests = 1 /\ ret[S].nn_queries = 0
  /\ pc[S] = "add"
  /\ a_i[S] = 2
  /\ \E k \in EmbedEvents(a_log[S], 0) : ~a_log[S][k].ok
  /\ \E k \in EmbedEvents(a_log[S], 1) : a_log[S][k].ok

(***************************************************************************)
(* C20: if the query embedding fails (blank query or remote error),        *)
(* similarity_search returns an empty result without issuing any           *)
(* nearest-neighbour query to the store.                                   *)
(***************************************************************************)
C20_NoEmbeddingNoStoreQuery ==
  \A c \in Callers :
    (SearchReturned(c) /\ ~ret[c].embedded) =>
       /\ ret[c].value = <<>>
       /\ ~ret[c].exc
       /\ ret[c].nn_queries = 0

\* the store holds records, the request for the query's embedding failed
C20_Witness ==
  \E c \in Callers :
    /\ SearchReturned(c)
    /\ ret[c].had_collection
    /\ ~IsBlank(ret[c].query)
    /\ ret[c].embed_requests = 1
    /\ ~ret[c].embedded
    /\ collection # {}

(***************************************************************************)
(* C21: a web searcher constructed without an API key is disabled, and     *)
(* every search call on it returns the empty sequence without attempting   *)
(* any network request.                                                    *)
(***************************************************************************)
WebSearchReturned == pc[S] = "idle" /\ ret[S].op = "web_search"

HttpEvents == {k \in 1..Len(g_events) : g_events[k].kind = "http"}

C21_DisabledSearcherNeverCallsNetwork ==
  /\ (ws # "none" /\ ~serper_key) => ws = "disabled"
  /\ (WebSearchReturned /\ ~ret[S].enabled) =>
       /\ ret[S].value = <<>>
       /\ ~ret[S].exc
       /\ ret[S].requests = 0
  /\ ws = "disabled" => HttpEvents = {} /\ g_web = <<>>

\* a search on the searcher of a system initialised without a Serper key
C21_Witness ==
  /\ ~serper_key
  /\ ws = "disabled"
  /\ WebSearchReturned
  /\ ~ret[S].enabled
  /\ ~IsBlank(ret[S].query)

(***************************************************************************)
(* C22: each call of an enabled web search issues at most one HTTP         *)
(* request; a non-200 response or a raised exception yields the empty      *)
(* sequence, never an exception to the caller, and is not retried.         *)
(***************************************************************************)
C22_OneRequestNoRetryNoException ==
  /\ (WebSearchReturned /\ ret[S].enabled) =>
       /\ ret[S].requests <= 1
       /\ ~ret[S].exc
       /\ ret[S].answer \in {"non200", "exception"} =>
            ret[S].value = <<>> /\ ret[S].requests = 1
  /\ g_pc \in {"chat", "done"} =>
       /\ Cardinality(HttpEvents) <= 1
       /\ \A k \in HttpEvents : ~g_events[k].ok => g_web = <<>>

\* an enabled search whose request was answered by a non-200 status or
\* raised
C22_Witness ==
  /\ WebSearchReturned
  /\ ret[S].enabled
  /\ ret[S].answer \in {"non200", "exception"}
  /\ ret[S].requests = 1

(***************************************************************************)
(* C23: add_document with empty or whitespace-only text, or text that      *)
(* yields no chunks, is rejected early: it returns false, issues no        *)
(* embedding request and leaves the collection unchanged.                  *)
(***************************************************************************)
YieldsNoChunks(text) ==
  text = <<>> \/ IsBlank(text) \/ ChunkText(text, CHUNK_SIZE, CHUNK_OVERLAP) = <<>>

\* the step is the call of an add_document
AddDocumentStep ==
  /\ pc[S] = "idle" /\ g_pc = "idle" /\ g_pc' = "idle"
  /\ ncalls'[S] = ncalls[S] + 1
  /\ pc'[S] = "add" \/ ret'[S].op = "add"

C23_BlankDocumentRejectedEarly ==
  [][\A text \in DocInputs, src \in Sources :
       (AddDocumentStep /\ YieldsNoChunks(text) /\ AddDocument(text, src)) =>
         /\ pc'[S] = "idle"
         /\ ret'[S].op = "add" /\ ret'[S].value = FALSE /\ ~ret'[S].exc
         /\ a_log' = a_log
         /\ collection' = collection]_vars

\* a whitespace-only document was rejected while the collection already
\* held a record
C23_Witness ==
  /\ pc[S] = "idle"
  /\ ret[S].op = "add"
  /\ "text" \in DOMAIN ret[S]
  /\ ret[S].text # <<>> /\ IsBlank(ret[S].text)
  /\ ret[S].value = FALSE
  /\ collection # {}

(***************************************************************************)
(* C24: the evaluator's faithfulness, relevancy and context-precision      *)
(* scores always lie in [0,1] for every question, answer and context:      *)
(* faithfulness is capped at 1.0, relevancy stays at most 1.0 after the    *)
(* length-band bonus, and context precision is a fraction of the           *)
(* retrieved chunks.                                                       *)
(***************************************************************************)
InUnitInterval(score) == score.d > 0 /\ 0 <= score.n /\ score.n <= score.d

C24_ScoresInUnitInterval ==
  /\ \A k \in 1..Len(ev_score) : InUnitInterval(ev_score[k])
  /\ (Len(ev_score) = 3 /\ ev_chunks # <<>> /\ ~IsEmptyStr(ev_question)) =>
         /\ ev_score[3].d = Len(ev_chunks)
         /\ ev_score[3].n \in 0..Len(ev_chunks)

\* every question word is in an answer whose length is in the bonus band,
\* and one of two retrieved chunks is relevant
C24_Witness ==
  /\ Len(ev_score) = 3
  /\ 50 <= StrLen(ev_answer) /\ StrLen(ev_answer) <= 500
  /\ ev_score[1].n = ev_score[1].d
  /\ ev_score[2].n = ev_score[2].d
  /\ LowerWords(ev_question) \ StopWordsRelevancy # {}
  /\ ev_score[3] = Frac(1, 2)

(***************************************************************************)
(* C25: the five-agent story workflow is a linear flow: in every run each  *)
(* of director, character_designer, world_builder, writer and editor       *)
(* executes exactly once, in that order, and writer starts only after      *)
(* both characters and world_setting have been produced.                   *)
(***************************************************************************)
NodeOrder == [k \in 1..Len(sg_trace) |-> sg_trace[k].node]

LinearOrder == <<"director", "character_designer", "world_builder", "writer", "editor">>

IsPrefix(a, b) == Len(a) <= Len(b) /\ \A k \in 1..Len(a) : a[k] = b[k]

C25_EachAgentOnceInLinearOrder ==
  /\ IsPrefix(NodeOrder, LinearOrder)
  /\ sg_pc = "end" => NodeOrder = LinearOrder
  /\ \A k \in 1..Len(sg_trace) :
       sg_trace[k].node = "writer" =>
         {"characters", "world_setting"} \subseteq sg_trace[k].saw

(***************************************************************************)
(* C26: the reflexion workflow always terminates: it stops as soon as the  *)
(* critique contains 'PERFECT' and otherwise once the iteration counter    *)
(* exceeds 2 (max iterations reached), whatever the critic model answers.  *)
(***************************************************************************)
C26_StopsAtPerfectOrAfterMaxIterations ==
  /\ ContainsPerfect(rf_critique) => rf_node = "end"
  /\ rf_iterations > 2 => rf_node \in {"end", "failed"}
  /\ rf_node \in {"generate", "reflect"} =>
       ShouldContinue(rf_iterations, rf_critique) # "end"

(***************************************************************************)
(* C27: delete_all deletes exactly the records present when it reads the   *)
(* id list: the read and the delete are two separate store operations, so  *)
(* a record persisted by a concurrent add between them survives and        *)
(* delete_all still returns success with a non-empty collection.           *)
(***************************************************************************)
C27_DeletesWhatItRead ==
  [][\A c \in Callers :
       (pc[c] = "del" /\ pc'[c] = "idle") =>
         IF ret'[c].failed
           THEN collection' = collection
           ELSE /\ ret'[c].value = TRUE
                /\ ret'[c].deleted = Cardinality(del_ids[c])
                /\ collection' = {r \in collection : r.id \notin del_ids[c]}
                /\ \A r \in collection : r.id \notin del_ids[c] => r \in collection']_vars

\* a session has read the id list and not deleted yet, and the collection
\* holds a record that another session's add stored since
C27_Witness ==
  \E c \in Callers :
    /\ pc[c] = "del"
    /\ \E r \in collection : r.id \notin del_ids[c] /\ r.by[1] # c
    /\ \E r \in collection : r.id \in del_ids[c]

(***************************************************************************)
(* C28: when overlap >= chunk_size and the text is non-blank, chunk_text   *)
(* makes no progress: the window start never increases, so the loop never  *)
(* terminates and the chunk list grows without bound.                      *)
(*                                                                         *)
(* As stated the claim fails: C28_NoProgressAndListGrows says that the     *)
(* loop goes on and that every iteration so far has appended a chunk.      *)
(* The list stays empty when overlap = chunk_size and the first window is  *)
(* blank, and stops growing when overlap > chunk_size, once the window     *)
(* lies before the text.  C28_NoProgress is the statement that holds: the  *)
(* window start never increases and the loop condition stays true after    *)
(* every iteration; with overlap = chunk_size the list grows by one chunk  *)
(* per iteration if the first window is non-blank and stays empty          *)
(* otherwise; with overlap > chunk_size it stops growing once the window   *)
(* lies before the text.                                                   *)
(***************************************************************************)
NoProgressCase == ck_overlap >= ck_size /\ ~IsBlank(ck_text)

C28_NoProgressAndListGrows ==
  (NoProgressCase /\ ck_pc # "entry") =>
    /\ ck_pc = "loop"
    /\ ck_start <= 0
    /\ Len(ck_chunks) = ck_iters

C28_NoProgress ==
  [][(NoProgressCase /\ ck_pc = "loop") =>
       /\ ck_pc' = "loop"
       /\ ck_start' <= ck_start
       /\ ck_start' < Len(ck_text)
       /\ ck_overlap = ck_size =>
            IF IsBlank(WindowRaw(ck_text, 0, ck_size))
              THEN ck_chunks' = <<>>
              ELSE Len(ck_chunks') = ck_iters'
       /\ ck_overlap > ck_size =>
            /\ ck_start' < ck_start
            /\ Len(ck_chunks') >= Len(ck_chunks)
            /\ (ck_start + ck_size <= 0 - Len(ck_text)) => ck_chunks' = ck_chunks]_vars

\* with overlap > chunk_size the loop is still running after MaxIter
\* iterations, far before the text, with fewer chunks than iterations
C28_Witness ==
  /\ NoProgressCase
  /\ ck_overlap > ck_size
  /\ ck_pc = "loop"
  /\ ck_iters = MaxIter
  /\ ck_start + ck_size <= 0 - Len(ck_text)
  /\ ck_chunks # <<>>
  /\ Len(ck_chunks) < ck_iters

(***************************************************************************)
(* C29: ingestion is not idempotent: adding the same document again never  *)
(* replaces or deduplicates earlier records, so after n successful         *)
(* ingestions of a document with k embeddable chunks the collection holds  *)
(* n*k records for that source, and within one add call the stored         *)
(* chunk_index values are distinct and equal to each chunk's position in   *)
(* the chunk list.                                                         *)
(*                                                                         *)
(* Stated per ingestion: when an add returns true, the collection holds    *)
(* one record of this call for each chunk it counted as stored, every      *)
(* record that was there when the call wrote is still there, and each      *)
(* record of the call carries the position of its chunk.                   *)
(***************************************************************************)
RecordsOfCall(coll, c, n) == {r \in coll : r.by = <<c, n>>}

C29_EveryIngestionAddsItsChunks ==
  [][/\ (pc[S] = "add" /\ pc'[S] = "add" /\ a_processed'[S] = a_processed[S] + 1) =>
          /\ collection \subseteq collection'
          /\ Cardinality(collection') = Cardinality(collection) + 1
     /\ (pc[S] = "add" /\ pc'[S] = "idle" /\ ret'[S].value = TRUE) =>
          LET mine == RecordsOfCall(collection, S, ncalls[S])
          IN /\ Cardinality(mine) = a_processed[S]
             /\ \A r \in mine :
                  /\ r.chunk_index \in 0..(Len(a_chunks[S]) - 1)
                  /\ r.document = a_chunks[S][r.chunk_index + 1]
             /\ \A r1, r2 \in mine : r1.chunk_index = r2.chunk_index => r1 = r2]_vars

(***************************************************************************)
(* C30: after every completed chat turn the session chat_history has       *)
(* grown by exactly one user message followed by one assistant message,    *)
(* so across any sequence of turns the roles strictly alternate starting   *)
(* with user and earlier entries are never modified or removed.            *)
(***************************************************************************)
RoleAt(k) == IF k % 2 = 1 THEN "user" ELSE "assistant"

C30_HistoryGrowsByAlternatingPairs ==
  [][/\ IsPrefix(chat_history, chat_history')
     /\ \A k \in 1..Len(chat_history') : chat_history'[k].role = RoleAt(k)
     /\ Len(chat_history') % 2 = (IF g_pc' # "idle" THEN 1 ELSE 0)
     /\ (g_pc = "idle" /\ g_pc' # "idle") =>
          chat_history' = Append(chat_history, UserMessage(g_query'))
     /\ (g_pc # "idle" /\ g_pc' = "idle") =>
          /\ Len(chat_history') = Len(chat_history) + 1
          /\ chat_history'[Len(chat_history')].content = g_result'.value.response
          /\ chat_history'[Len(chat_history') - 1] = UserMessage(g_query)]_vars

\* two completed turns, the second answered by the canned apology
C30_Witness ==
  /\ g_pc = "idle"
  /\ Len(chat_history) = 4
  /\ chat_history[4].content = Canned.response
  /\ chat_history[2].content = GeneratedText

====
